---- MODULE Spec2Model ----
(***************************************************************************)
(* The node probing engine of s-ui (service.NodeTestService): reachability *)
(* probe, enriched probe with the geo race, the batch schedulers with      *)
(* their semaphore / wait group / mutex, and SaveTestResult.               *)
(*                                                                         *)
(* Strings of the program are TLA+ strings; a measured duration is a small *)
(* integer of Durations; a nil *NodeTestResult is the record NilResult     *)
(* (Tag = ""), a missing row is the record NoRow (Type = "").              *)
(***************************************************************************)
EXTENDS Integers, Sequences, FiniteSets, TLC

VARIABLES
    rows,        \* the outbounds table: tag -> row (NoRow when there is none)
    clock,       \* wall clock, unix seconds (time.Now().Unix())
    engine,      \* the proxy runtime: "nil" (not running), "unloaded"
                 \* (running, the tag is not registered), "loaded"
    op,          \* the batch operation being run
    phase,       \* position of the batch function
    conc,        \* capacity of sem after the concurrency <= 0 default
    queried,     \* the outbounds slice read by the batch's db.Find
    ctxDone,     \* the batch caller's context is cancelled
    pc,          \* tag -> position of the task goroutine of that tag
    res,         \* tag -> *NodeTestResult of the task (NilResult = nil)
    prov,        \* tag -> provider -> position of the lookup goroutine
    resultChan,  \* tag -> contents of executeIPLookups' resultChan
    failures,    \* tag -> the collector's count of nil receipts
    mu,          \* holder of the results mutex ("" = unlocked)
    snap,        \* tag -> the results slice read by the task's append
    results,     \* the results slice of the batch
    saveIdx,     \* index of the *AndSave loop over results
    socks,       \* tag -> the probe took the testWithSOCKS5 path
    outbounds,   \* the outbounds table as Refresh writes it: a set of rows
                 \* [Id, Tag, Sub] (Sub = 0: added by hand)
    refresh,     \* subscription -> state of its Refresh call
    hist         \* history: what the run has shown so far (not program state)

vars == <<rows, clock, engine, op, phase, conc, queried, ctxDone, pc, res,
          prov, resultChan, failures, mu, snap, results, saveIdx, socks,
          outbounds, refresh, hist>>

-----------------------------------------------------------------------------
(* Bounds of the model *)

\* the clock starts at StartClock and stops advancing at MaxClock
MaxClock == 3
\* largest concurrency argument a caller passes (0 asks for the default)
MaxConcurrency == 1

\* tags of the table; SpecProbe uses the first only
Tags == {"a", "b"}
ProbeTag == "a"

\* batches run one after the other in SpecRepeat
MaxRuns == 2

\* longest tags argument of the selected batches in SpecSelect
MaxReq == 3

\* SaveTestResult calls another operation makes while the batch of
\* SpecOverlap runs
MaxOtherSaves == 2

\* longest isp and hostname (in pieces) a provider answers in SpecInfer
MaxIspPieces == 2
MaxHostPieces == 1

\* durations a time.Since(..).Milliseconds() can measure
Durations == {0, 7}

-----------------------------------------------------------------------------
(* Outbound types *)

AllTypes == {"vmess", "vless", "trojan", "shadowsocks", "socks", "hysteria",
             "hysteria2", "tuic", "wireguard", "anytls", "direct", "block",
             "selector", "urltest", "dns"}

\* the types the batch loops skip ("Skip non-proxy outbounds")
IsSkippedTypeNoBlock(type) == type \in {"direct", "selector", "urltest"}
IsSkippedType(type) == type \in {"direct", "selector", "urltest", "block"}

\* the types TestOutbound does not dial ("Skip TCP test for UDP-based protocols")
IsUDPSkipNone(type) == FALSE
IsUDPSkip(type) == type \in {"hysteria2", "tuic", "wireguard", "hy2"}

-----------------------------------------------------------------------------
(* Records *)

NoRow == [Type |-> "", Valid |-> FALSE, LandingIP |-> "", Country |-> "",
          Region |-> "", City |-> "", LastTestTime |-> 0, FraudScore |-> 0,
          IPType |-> "", Available |-> FALSE]

\* a row as subscription import or manual add creates it
NewRow(type, valid) == [NoRow EXCEPT !.Type = type, !.Valid = valid]

\* a row that an earlier probe has filled in
OldRow(type, valid) ==
    [NoRow EXCEPT !.Type = type, !.Valid = valid, !.LandingIP = "ip0",
                  !.Country = "c0", !.Region = "r0", !.City = "y0",
                  !.LastTestTime = 1, !.FraudScore = 33, !.IPType = "ISP",
                  !.Available = TRUE]

Exists(t) == rows[t].Type # ""

NilResult == [Tag |-> "", Valid |-> FALSE, Latency |-> 0, RealLatency |-> 0,
              Available |-> FALSE, LandingIP |-> "", Country |-> "",
              Region |-> "", City |-> "", ISP |-> <<>>, IPType |-> "",
              FraudScore |-> 0, Error |-> ""]

IsNil(r) == r.Tag = ""

\* error strings of the program
ErrInvalid == "invalid server or port"
ErrDial == "dial tcp: connection refused"
ErrNotInDB == "outbound not found in database"
ErrNoEngine == "sing-box not running (required for non-SOCKS5 protocols)"
ErrNotLoaded == "outbound not found in sing-box (load node first or use SOCKS5)"
ErrAllFailed == "all IP lookup services failed"

-----------------------------------------------------------------------------
(* TestOutbound: the results it builds *)

\* result := &NodeTestResult{Tag, Server, Port}; Valid stands for
\* server # "" and port # 0
BaseResult(tag, valid) == [NilResult EXCEPT !.Tag = tag, !.Valid = valid]

InvalidResultNoError(tag) ==
    [BaseResult(tag, FALSE) EXCEPT !.Available = FALSE, !.Latency = -1]

InvalidResult(tag) ==
    [BaseResult(tag, FALSE) EXCEPT !.Available = FALSE, !.Latency = -1,
                                   !.Error = ErrInvalid]

UDPResult(tag) ==
    [BaseResult(tag, TRUE) EXCEPT !.Available = TRUE, !.Latency = 0]

DialFailedResultZero(tag) ==
    [BaseResult(tag, TRUE) EXCEPT !.Available = FALSE, !.Latency = 0,
                                  !.Error = ErrDial]

DialFailedResult(tag) ==
    [BaseResult(tag, TRUE) EXCEPT !.Available = FALSE, !.Latency = -1,
                                  !.Error = ErrDial]

DialedResult(tag, ms) ==
    [BaseResult(tag, TRUE) EXCEPT !.Available = TRUE, !.Latency = ms]

-----------------------------------------------------------------------------
(* inferIPType.  A string is the sequence of its pieces (a word, or a part *)
(* of a word); a keyword is a string; strings.Contains(s, kw) holds when  *)
(* kw occurs in s as a run of consecutive pieces; strings.ToLower works   *)
(* piece by piece.                                                        *)

LowerWord(w) ==
    CASE w = "Hetzner" -> "hetzner"
      [] w = "Comcast" -> "comcast"
      [] w = "Cable" -> "cable"
      [] w = "EC2" -> "ec2"
      [] w = "Online" -> "online"
      [] w = "Acme" -> "acme"
      [] w = "Corp" -> "corp"
      [] w = "Amazon" -> "amazon"
      [] w = "Deutsche" -> "deutsche"
      [] w = "Telekom" -> "telekom"
      [] OTHER -> w

ToLower(s) == [i \in 1..Len(s) |-> LowerWord(s[i])]

Contains(s, kw) ==
    \E i \in 0..(Len(s) - Len(kw)) : SubSeq(s, i + 1, i + Len(kw)) = kw

hostKeywords ==
    {<<"ec2">>, <<"compute">>, <<"cloud">>, <<"vps">>, <<"server">>,
     <<"hosting">>, <<"datacenter">>, <<"colocation">>, <<"azure">>,
     <<"googleusercontent">>, <<"amazonaws">>, <<"linode">>, <<"vultr">>,
     <<"digitalocean">>, <<"oracle">>, <<"alibaba">>, <<"tencent">>,
     <<"kamatera">>, <<"hetzner">>, <<"ovh">>, <<"choopa">>, <<"leaseweb">>,
     <<"m247">>, <<"fly.io">>, <<"cloudflare">>, <<"fastly">>, <<"akamai">>,
     <<"cdn">>}

hostingKeywords ==
    {<<"cloud">>, <<"vps">>, <<"data">>, <<"hosting">>, <<"server">>,
     <<"solution">>, <<"tech">>, <<"network">>, <<"amazon">>, <<"google">>,
     <<"microsoft">>, <<"oracle">>, <<"aliyun">>, <<"tencent">>,
     <<"digitalocean">>, <<"vultr">>, <<"linode">>, <<"hetzner">>, <<"ovh">>,
     <<"leaseweb">>, <<"choopa">>, <<"m247">>, <<"fly.io">>,
     <<"cloudflare">>, <<"fastly">>, <<"akamai">>, <<"cdn">>}

ispKeywords ==
    {<<"telecom">>, <<"mobile">>, <<"cable">>, <<"broadband">>,
     <<"internet">>, <<"comcast">>, <<"verizon">>, <<"spectrum">>,
     <<"t-mobile">>, <<"vodafone">>, <<"att">>, <<"orange">>,
     <<"deutsche", "telekom">>, <<"telefonica">>, <<"bt">>, <<"virgin">>,
     <<"sky">>, <<"charter">>, <<"cox">>, <<"century">>}

inferIPTypeIspFirst(isp, hostname) ==
    IF isp = <<>> /\ hostname = <<>> THEN ""
    ELSE IF \E k \in hostingKeywords : Contains(ToLower(isp), k) THEN "Hosting"
    ELSE IF \E k \in ispKeywords : Contains(ToLower(isp), k) THEN "ISP"
    ELSE IF \E k \in hostKeywords : Contains(ToLower(hostname), k) THEN "Hosting"
    ELSE "Business"

inferIPType(isp, hostname) ==
    IF isp = <<>> /\ hostname = <<>> THEN ""
    ELSE IF \E k \in hostKeywords : Contains(ToLower(hostname), k) THEN "Hosting"
    ELSE IF \E k \in hostingKeywords : Contains(ToLower(isp), k) THEN "Hosting"
    ELSE IF \E k \in ispKeywords : Contains(ToLower(isp), k) THEN "ISP"
    ELSE "Business"

-----------------------------------------------------------------------------
(* The geo providers: 1 ip-api, 2 ipinfo, 3 ipwhois, 4 ping0 *)

NumProviders == 4
Providers == 1..NumProviders

\* what a provider task can come back with: an error ("fail"), a parsed
\* answer that carries no ip ("empty"), a parsed answer with an ip ("ok")
Outcomes == {"fail", "empty", "ok"}

\* the providers whose answer may lack the ip: ip-api answers a refused
\* query with {"status":"fail","message":..}
EmptyProviders == {1}
OutcomesOf(p) == IF p \in EmptyProviders THEN Outcomes ELSE Outcomes \ {"empty"}

EmptyResponse == [ip |-> "", country |-> "", region |-> "", city |-> "",
                  isp |-> <<>>, hostname |-> <<>>, ms |-> 0]

\* the answer of provider p when it has one; ms is the time to first byte
OkResponse(p) ==
    CASE p = 1 -> [ip |-> "ip1", country |-> "c1", region |-> "r1",
                   city |-> "y1", isp |-> <<"Hetzner", "Online">>,
                   hostname |-> <<>>, ms |-> 11]
      [] p = 2 -> [ip |-> "ip2", country |-> "c2", region |-> "r2",
                   city |-> "y2", isp |-> <<"Comcast", "Cable">>,
                   hostname |-> <<>>, ms |-> 12]
      [] p = 3 -> [ip |-> "ip3", country |-> "c3", region |-> "r3",
                   city |-> "y3", isp |-> <<"Acme">>,
                   hostname |-> <<"EC2", "compute">>, ms |-> 13]
      [] OTHER -> [ip |-> "ip4", country |-> "c4", region |-> "r4",
                   city |-> "y4", isp |-> <<"Acme", "Corp">>,
                   hostname |-> <<>>, ms |-> 14]

Response(p, outcome) ==
    IF outcome = "ok" THEN OkResponse(p) ELSE [EmptyResponse EXCEPT !.ms = 10 + p]

\* what tryIPAPI / tryIPInfo / tryIPWhois / tryPing0 (and the WithDialer
\* twins) leave in their private copy of the result when they return nil
TempResult(base, resp) ==
    [base EXCEPT
        !.RealLatency = IF base.RealLatency = 0 THEN resp.ms ELSE base.RealLatency,
        !.LandingIP = resp.ip,
        !.Country = resp.country,
        !.Region = resp.region,
        !.City = resp.city,
        !.ISP = resp.isp,
        !.IPType = IF base.IPType = "" THEN inferIPType(resp.isp, resp.hostname)
                   ELSE base.IPType]

\* what a provider task sends on resultChan: &tempResult, or nil on error
MessageMixed(base, p, outcome) ==
    IF outcome = "fail" THEN NilResult
    ELSE [TempResult(base, Response(p, outcome)) EXCEPT
             !.Country = OkResponse((p % NumProviders) + 1).country]

Message(base, p, outcome) ==
    IF outcome = "fail" THEN NilResult ELSE TempResult(base, Response(p, outcome))

-----------------------------------------------------------------------------
(* The fraud score.  A scamalytics page is [score, risk]: score is the    *)
(* number after "Fraud Score:" (-1 when the pattern is absent), risk the  *)
(* set of risk phrases the page contains.                                 *)

RiskScore(page, old) ==
    IF "High Risk" \in page.risk THEN (IF old = 0 THEN 75 ELSE old)
    ELSE IF "Medium Risk" \in page.risk THEN (IF old = 0 THEN 50 ELSE old)
    ELSE IF "Low Risk" \in page.risk THEN (IF old = 0 THEN 15 ELSE old)
    ELSE old

\* the adapter path: the regex, then the risk phrases
getScamalyticsScore(result, page) ==
    [result EXCEPT !.FraudScore =
        IF page.score >= 0 THEN page.score ELSE RiskScore(page, result.FraudScore)]

\* the SOCKS5 path: the regex only
getScamalyticsScoreWithDialer(result, page) ==
    [result EXCEPT !.FraudScore =
        IF page.score >= 0 THEN page.score ELSE result.FraudScore]

ScamPages == {[score |-> 83, risk |-> {}],
              [score |-> -1, risk |-> {"Medium Risk"}],
              [score |-> -1, risk |-> {}]}

\* the result after a request that failed (client.Do or io.ReadAll gave an
\* error): the function returns and leaves it as it is
ScamErrorReported(result) == [result EXCEPT !.Error = "scamalytics request failed"]
ScamError(result) == result

-----------------------------------------------------------------------------
(* SaveTestResult *)

\* the row of result.Tag after db.Model(..).Where("tag = ?").Updates(updates)
\* an UPDATE that another statement can see half-done: the landing IP
\* without the fields that go with it
UpdatedRowTorn(row, result, now) ==
    IF result.LandingIP # ""
    THEN [row EXCEPT !.LastTestTime = now, !.Available = result.Available,
                     !.LandingIP = result.LandingIP]
    ELSE [row EXCEPT !.LastTestTime = now, !.Available = result.Available]

UpdatedRowAlways(row, result, now) ==
    [row EXCEPT !.LastTestTime = now, !.Available = result.Available,
                !.LandingIP = result.LandingIP, !.Country = result.Country,
                !.Region = result.Region, !.City = result.City,
                !.FraudScore = result.FraudScore, !.IPType = result.IPType]

UpdatedRowNoStamp(row, result, now) ==
    IF result.LandingIP # ""
    THEN [row EXCEPT !.LastTestTime = now, !.Available = result.Available,
                     !.LandingIP = result.LandingIP, !.Country = result.Country,
                     !.Region = result.Region, !.City = result.City,
                     !.FraudScore = result.FraudScore, !.IPType = result.IPType]
    ELSE row

UpdatedRowScoreAlways(row, result, now) ==
    IF result.LandingIP # ""
    THEN [row EXCEPT !.LastTestTime = now, !.Available = result.Available,
                     !.LandingIP = result.LandingIP, !.Country = result.Country,
                     !.Region = result.Region, !.City = result.City,
                     !.FraudScore = result.FraudScore, !.IPType = result.IPType]
    ELSE [row EXCEPT !.LastTestTime = now, !.Available = result.Available,
                     !.FraudScore = result.FraudScore, !.IPType = result.IPType]

UpdatedRow(row, result, now) ==
    IF result.LandingIP # ""
    THEN [row EXCEPT !.LastTestTime = now, !.Available = result.Available,
                     !.LandingIP = result.LandingIP, !.Country = result.Country,
                     !.Region = result.Region, !.City = result.City,
                     !.FraudScore = result.FraudScore, !.IPType = result.IPType]
    ELSE [row EXCEPT !.LastTestTime = now, !.Available = result.Available]

SaveTestResultUpsert(result, now) ==
    [rows EXCEPT ![result.Tag] = UpdatedRow(rows[result.Tag], result, now)]

\* the table after SaveTestResult(result) at time now: an UPDATE that
\* matches no row changes nothing and is no error
SaveTestResult(result, now) ==
    IF Exists(result.Tag)
    THEN [rows EXCEPT ![result.Tag] = UpdatedRow(rows[result.Tag], result, now)]
    ELSE rows

-----------------------------------------------------------------------------
(* The batch: TestAllOutbounds, TestSelectedOutbounds, TestAllOutbounds-  *)
(* WithIP, TestSelectedOutboundsWithIP, TestAllAndSave, TestSelectedAnd-  *)
(* Save.  op = [Enriched, AndSave, Selected, Req, Concurrency]; Req is the *)
(* tags argument, a list (empty in the operations that take none).        *)

DefaultConcurrency == 50
DefaultConcurrencyIP == 10
\* the batch starts after the earlier probe of the rows
StartClock == OldRow("", TRUE).LastTestTime + 1

EffectiveConcurrencyOneDefault(o) ==
    IF o.Concurrency <= 0 THEN DefaultConcurrency ELSE o.Concurrency

\* the capacity of sem: if concurrency <= 0 { concurrency = 50 } (10 in the
\* WithIP batches)
EffectiveConcurrency(o) ==
    IF o.Concurrency <= 0
    THEN (IF o.Enriched THEN DefaultConcurrencyIP ELSE DefaultConcurrency)
    ELSE o.Concurrency

Ops(reqs, concs) ==
    [Enriched : {FALSE}, AndSave : {FALSE}, Selected : {FALSE}, Req : {<<>>},
     Concurrency : concs]
    \cup [Enriched : {FALSE}, AndSave : {FALSE}, Selected : {TRUE}, Req : reqs,
          Concurrency : concs]
    \cup [Enriched : {TRUE}, AndSave : BOOLEAN, Selected : {FALSE}, Req : {<<>>},
          Concurrency : concs]
    \cup [Enriched : {TRUE}, AndSave : BOOLEAN, Selected : {TRUE}, Req : reqs,
          Concurrency : concs]

\* the location fields of a row or of a result
Location(r) == [LandingIP |-> r.LandingIP, Country |-> r.Country,
                Region |-> r.Region, City |-> r.City]

\* saved is the result of the last SaveTestResult, savedMissing tells
\* that its tag had no row;
\* answer is the isp and hostname of the answer given to ProviderAnswer;
\* runs counts the batches run one after the other; lastGeo[t] is the
\* location of the last persisted result of t that had a landing IP
\* (at first, the location the row starts with); headMs[t] is what the
\* HEAD /generate_204 probe of t measured (-1: it failed, or was not made);
\* others counts the SaveTestResult calls of another operation
NoHist == [submitted |-> {}, reachDialled |-> {}, reachFailed |-> {},
           saved |-> NilResult, savedMissing |-> FALSE,
           nsaves |-> 0, raceDone |-> FALSE, cancelEarly |-> FALSE,
           accepted |-> [t \in Tags |-> NilResult],
           runs |-> 1,
           answer |-> [isp |-> <<>>, hostname |-> <<>>],
           headMs |-> [t \in Tags |-> -1],
           others |-> 0,
           lastGeo |-> [t \in Tags |-> Location(NoRow)]]

\* the history after the save of result
Saved(result) ==
    [hist EXCEPT !.saved = result, !.nsaves = @ + 1,
                 !.savedMissing = ~Exists(result.Tag),
                 !.lastGeo = IF result.LandingIP # ""
                             THEN [@ EXCEPT ![result.Tag] = Location(result)]
                             ELSE @]

\* the subscriptions whose Refresh calls may overlap (a manual refresh and
\* the auto-update ticker's)
Subs == {1, 2}

\* a subscription with no Refresh call running
IdleRefresh == [pc |-> "idle", mode |-> "", todo |-> <<>>, Success |-> 0,
                Failed |-> 0, runs |-> 0]

InitRun ==
    /\ clock = StartClock
    /\ phase = "call"
    /\ conc = 0
    /\ queried = {}
    /\ ctxDone = FALSE
    /\ pc = [t \in Tags |-> "idle"]
    /\ res = [t \in Tags |-> NilResult]
    /\ prov = [t \in Tags |-> [p \in Providers |-> "idle"]]
    /\ resultChan = [t \in Tags |-> <<>>]
    /\ failures = [t \in Tags |-> 0]
    /\ mu = ""
    /\ snap = [t \in Tags |-> <<>>]
    /\ results = <<>>
    /\ saveIdx = 1
    /\ socks = [t \in Tags |-> FALSE]
    /\ outbounds = {}
    /\ refresh = [s \in Subs |-> IdleRefresh]
    /\ hist = [NoHist EXCEPT !.lastGeo = [t \in Tags |-> Location(rows[t])]]

HoldingNoRelease(t) == pc[t] \notin {"idle", "waitSem"}

\* sem: a task holds a slot from its acquire to its deferred release
Holding(t) == pc[t] \notin {"idle", "waitSem", "done"}

SemHasRoomAlways == TRUE
SemHasRoom == Cardinality({t \in Tags : Holding(t)}) < conc

\* the elements of a list
Range(s) == {s[i] : i \in 1..Len(s)}

\* the rows db.Find(&outbounds) and db.Where("tag IN ?", tags).Find(..)
\* return: a row once, however often its tag is in tags
Found == {t \in Tags : Exists(t) /\ (op.Selected => t \in Range(op.Req))}

\* *AndSave go through Test..WithIPInternal, which needs corePtr running
BatchRefused ==
    /\ phase = "call"
    /\ op.AndSave /\ engine = "nil"
    /\ phase' = "error"
    /\ UNCHANGED <<outbounds, refresh, rows, clock, engine, op, conc, queried, ctxDone, pc, res, prov,
                   resultChan, failures, mu, snap, results, saveIdx, socks, hist>>

\* db.Find, the default concurrency, and the loop that starts one goroutine
\* for every row that is not skipped
BatchStart ==
    /\ phase = "call"
    /\ ~(op.AndSave /\ engine = "nil")
    /\ LET sub == {t \in Found : ~IsSkippedType(rows[t].Type)} IN
        /\ queried' = Found
        /\ conc' = EffectiveConcurrency(op)
        /\ pc' = [t \in Tags |-> IF t \in sub THEN "waitSem" ELSE "idle"]
        /\ hist' = [hist EXCEPT !.submitted = sub]
    /\ phase' = "wait"
    /\ UNCHANGED <<outbounds, refresh, rows, clock, engine, op, ctxDone, res, prov, resultChan,
                   failures, mu, snap, results, saveIdx, socks>>

\* sem <- struct{}{}
Acquire(t) ==
    /\ pc[t] = "waitSem"
    /\ SemHasRoom
    /\ pc' = [pc EXCEPT ![t] = "start"]
    /\ UNCHANGED <<outbounds, refresh, rows, clock, engine, op, phase, conc, queried, ctxDone, res,
                   prov, resultChan, failures, mu, snap, results, saveIdx, socks,
                   hist>>

\* where a task goes with a TestOutbound result that is not available
\* (the reachability batches save it in the task, the enriched ones
\* append it at once), and where with one that is
AfterProbeContinue == IF op.Enriched THEN "recheck" ELSE "save"
AfterProbe == IF op.Enriched THEN "append" ELSE "save"
AfterAvailable == IF op.Enriched THEN "recheck" ELSE "save"

\* what TestOutbound returns when the tag has no row: (nil, err)
MissingResultInvalid(t) == InvalidResult(t)
MissingResult(t) == NilResult

\* if result != nil { .. }: a task with no result ends
AfterTestOutbound(r, next) == IF IsNil(r) THEN "done" ELSE next

\* TestOutbound up to the dial: the row lookup, the config check, the UDP
\* skip.  A missing row gives (nil, err): the task ends with nothing.
TestOutboundStart(t) ==
    /\ pc[t] = "start"
    /\ IF ~Exists(t)
       THEN /\ res' = [res EXCEPT ![t] = MissingResult(t)]
            /\ pc' = [pc EXCEPT ![t] = AfterTestOutbound(MissingResult(t), AfterProbe)]
            /\ hist' = hist
       ELSE IF ~rows[t].Valid
       THEN /\ res' = [res EXCEPT ![t] = InvalidResult(t)]
            /\ pc' = [pc EXCEPT ![t] = AfterProbe]
            /\ hist' = hist
       ELSE IF IsUDPSkip(rows[t].Type)
       THEN /\ res' = [res EXCEPT ![t] = UDPResult(t)]
            /\ pc' = [pc EXCEPT ![t] = AfterAvailable]
            /\ hist' = hist
       ELSE /\ res' = [res EXCEPT ![t] = BaseResult(t, TRUE)]
            /\ pc' = [pc EXCEPT ![t] = "reachDial"]
            /\ hist' = [hist EXCEPT !.reachDialled = @ \cup {t}]
    /\ UNCHANGED <<outbounds, refresh, rows, clock, engine, op, phase, conc, queried, ctxDone, prov,
                   resultChan, failures, mu, snap, results, saveIdx, socks>>

\* net.DialTimeout("tcp", address, 10s) returns: ms = -1 is an error
ReachDialEnd(t, ms) ==
    /\ pc[t] = "reachDial"
    /\ IF ms < 0
       THEN /\ res' = [res EXCEPT ![t] = DialFailedResult(t)]
            /\ pc' = [pc EXCEPT ![t] = AfterProbe]
            /\ hist' = [hist EXCEPT !.reachFailed = @ \cup {t}]
       ELSE /\ res' = [res EXCEPT ![t] = DialedResult(t, ms)]
            /\ pc' = [pc EXCEPT ![t] = AfterAvailable]
            /\ hist' = hist
    /\ UNCHANGED <<outbounds, refresh, rows, clock, engine, op, phase, conc, queried, ctxDone, prov,
                   resultChan, failures, mu, snap, results, saveIdx, socks>>

AllRunning == [p \in Providers |-> "run"]

\* the error of the outbound manager lookup: FromContext gave nil, or
\* Outbound(tag) is not loaded; "" when the adapter is there
EngineErrorNilOnly(e) == IF e = "nil" THEN ErrNoEngine ELSE ""

EngineError(e) ==
    IF e = "nil" THEN ErrNoEngine
    ELSE IF e = "unloaded" THEN ErrNotLoaded
    ELSE ""

\* TestOutboundWithLandingIP after an available TestOutbound: the second
\* row lookup, then testWithSOCKS5 up to its executeIPLookups, or the
\* outbound manager lookup up to the real-latency dial
Recheck(t) ==
    /\ pc[t] = "recheck"
    /\ IF ~Exists(t)
       THEN /\ res' = [res EXCEPT ![t].Error = ErrNotInDB]
            /\ pc' = [pc EXCEPT ![t] = "append"]
            /\ UNCHANGED <<prov, socks>>
       ELSE IF rows[t].Type = "socks"
       THEN IF ~rows[t].Valid
            THEN /\ res' = [res EXCEPT ![t].Error = ErrInvalid]
                 /\ pc' = [pc EXCEPT ![t] = "append"]
                 /\ UNCHANGED <<prov, socks>>
            ELSE /\ socks' = [socks EXCEPT ![t] = TRUE]
                 /\ prov' = [prov EXCEPT ![t] = AllRunning]
                 /\ pc' = [pc EXCEPT ![t] = "race"]
                 /\ res' = res
       ELSE IF EngineError(engine) # ""
       THEN /\ res' = [res EXCEPT ![t].Error = EngineError(engine)]
            /\ pc' = [pc EXCEPT ![t] = "append"]
            /\ UNCHANGED <<prov, socks>>
       ELSE /\ pc' = [pc EXCEPT ![t] = "rlDial"]
            /\ UNCHANGED <<res, prov, socks>>
    /\ UNCHANGED <<outbounds, refresh, rows, clock, engine, op, phase, conc, queried, ctxDone,
                   resultChan, failures, mu, snap, results, saveIdx, hist>>

\* the HEAD /generate_204 probe over the adapter returns (ms = -1: the dial,
\* the write or the read failed), then executeIPLookups starts its tasks.
\* A success is a step taken while dialCtx is not yet done.
RealLatencyEnd(t, ms) ==
    /\ pc[t] = "rlDial"
    /\ ms >= 0 => ~ctxDone
    /\ res' = [res EXCEPT ![t].RealLatency = IF ms >= 0 THEN ms ELSE @]
    /\ prov' = [prov EXCEPT ![t] = AllRunning]
    /\ pc' = [pc EXCEPT ![t] = "race"]
    /\ hist' = [hist EXCEPT !.headMs[t] = ms]
    /\ UNCHANGED <<outbounds, refresh, rows, clock, engine, op, phase, conc, queried, ctxDone,
                   resultChan, failures, mu, snap, results, saveIdx, socks>>

-----------------------------------------------------------------------------
(* executeIPLookups *)

\* the context a provider task dials under is done: the batch context on
\* the adapter path; testWithSOCKS5 derives its own from
\* context.Background(), which the batch context does not reach
DialCtxCancelledAlso(t) == ctxDone
DialCtxCancelled(t) == ctxDone /\ ~socks[t]

\* a provider task returns and sends on resultChan (capacity len(tasks):
\* the send never blocks).  tempResult is the copy of *baseResult, which
\* is the task's result as long as the collector has not returned; what a
\* task sends after the collector has returned is never read, so those
\* tasks are taken in provider order and their answer is left open.
ProviderReport(t, p, outcome) ==
    /\ prov[t][p] = "run"
    /\ outcome \in OutcomesOf(p)
    /\ outcome # "fail" => ~DialCtxCancelled(t)
    /\ pc[t] # "race" => outcome = "fail" /\ \A q \in 1..(p - 1) : prov[t][q] # "run"
    /\ prov' = [prov EXCEPT ![t][p] = "sent"]
    /\ resultChan' = IF pc[t] = "race"
                     THEN [resultChan EXCEPT ![t] = Append(@, Message(res[t], p, outcome))]
                     ELSE resultChan
    /\ UNCHANGED <<outbounds, refresh, rows, clock, engine, op, phase, conc, queried, ctxDone, pc,
                   res, failures, mu, snap, results, saveIdx, socks, hist>>

\* tryIPAPI / tryIPAPIWithDialer with an answer of any isp and reverse
\* hostname: the parse, inferIPType, and the send of &tempResult
ProviderAnswer(t, p, isp, hostname) ==
    /\ prov[t][p] = "run"
    /\ pc[t] = "race"
    /\ ~DialCtxCancelled(t)
    /\ prov' = [prov EXCEPT ![t][p] = "sent"]
    /\ resultChan' =
          [resultChan EXCEPT ![t] =
              Append(@, TempResult(res[t], [OkResponse(p) EXCEPT
                                               !.isp = isp,
                                               !.hostname = hostname]))]
    /\ hist' = [hist EXCEPT !.answer = [isp |-> isp, hostname |-> hostname]]
    /\ UNCHANGED <<outbounds, refresh, rows, clock, engine, op, phase, conc, queried, ctxDone, pc,
                   res, failures, mu, snap, results, saveIdx, socks>>

\* the same step, taken only when the collector has drained the channel
ProviderReportDrained(t, p, outcome) ==
    /\ pc[t] = "race" => resultChan[t] = <<>>
    /\ ProviderReport(t, p, outcome)

\* the caller after executeIPLookups: the error, or on to the fraud score
AfterRaceSilent(r) == r
AfterRace(r) == IF r.LandingIP = "" THEN [r EXCEPT !.Error = ErrAllFailed] ELSE r

\* which received result ends the race: any non-nil one
IsWinnerNonEmpty(m) == ~IsNil(m) /\ m.LandingIP # ""
IsWinner(m) == ~IsNil(m)

\* the collector's loop is over: for i := 0; i < len(tasks); i++ has
\* received n nils
AllFailedAtFirst(n) == n >= 1
AllFailed(n) == n = NumProviders

\* case res := <-resultChan
CollectorRecv(t) ==
    /\ pc[t] = "race"
    /\ resultChan[t] # <<>>
    /\ LET m == Head(resultChan[t]) IN
        IF IsWinner(m)
        THEN /\ res' = [res EXCEPT ![t] = AfterRace(m)]
             /\ pc' = [pc EXCEPT ![t] = IF m.LandingIP = "" THEN "append" ELSE "scam"]
             /\ resultChan' = [resultChan EXCEPT ![t] = <<>>]
             /\ failures' = failures
             /\ hist' = [hist EXCEPT !.accepted[t] = m, !.raceDone = TRUE]
        ELSE IF AllFailed(failures[t] + 1)
        THEN /\ res' = [res EXCEPT ![t] = AfterRace(@)]
             /\ pc' = [pc EXCEPT ![t] = "append"]
             /\ resultChan' = [resultChan EXCEPT ![t] = <<>>]
             /\ failures' = [failures EXCEPT ![t] = @ + 1]
             /\ hist' = [hist EXCEPT !.raceDone = TRUE]
        ELSE /\ resultChan' = [resultChan EXCEPT ![t] = Tail(@)]
             /\ failures' = [failures EXCEPT ![t] = @ + 1]
             /\ UNCHANGED <<res, pc, hist>>
    /\ UNCHANGED <<outbounds, refresh, rows, clock, engine, op, phase, conc, queried, ctxDone, prov,
                   mu, snap, results, saveIdx, socks>>

\* case <-ctx.Done(): the 15 s timeout of the context, which can fire at
\* any moment of the race, or the cancellation of its parent
CollectorCtxDone(t) ==
    /\ pc[t] = "race"
    /\ res' = [res EXCEPT ![t] = AfterRace(@)]
    /\ pc' = [pc EXCEPT ![t] = "append"]
    /\ resultChan' = [resultChan EXCEPT ![t] = <<>>]
    /\ hist' = [hist EXCEPT !.raceDone = TRUE]
    /\ UNCHANGED <<outbounds, refresh, rows, clock, engine, op, phase, conc, queried, ctxDone, prov,
                   failures, mu, snap, results, saveIdx, socks>>

\* getIPTypeAndScore / getIPTypeAndScoreWithDialer return: the request
\* failed (silently), or a page was read
ScamFailed(t) ==
    /\ pc[t] = "scam"
    /\ res' = [res EXCEPT ![t] = ScamError(@)]
    /\ pc' = [pc EXCEPT ![t] = "append"]
    /\ UNCHANGED <<outbounds, refresh, rows, clock, engine, op, phase, conc, queried, ctxDone,
                   prov, resultChan, failures, mu, snap, results, saveIdx, socks,
                   hist>>

ScamPage(t, page) ==
    /\ pc[t] = "scam"
    /\ ~DialCtxCancelled(t)
    /\ res' = [res EXCEPT ![t] = IF socks[t]
                                 THEN getScamalyticsScoreWithDialer(@, page)
                                 ELSE getScamalyticsScore(@, page)]
    /\ pc' = [pc EXCEPT ![t] = "append"]
    /\ UNCHANGED <<outbounds, refresh, rows, clock, engine, op, phase, conc, queried, ctxDone, prov,
                   resultChan, failures, mu, snap, results, saveIdx, socks, hist>>

-----------------------------------------------------------------------------
(* The end of a task, and of the batch *)

\* s.SaveTestResult(result) in the tasks of the reachability batches
TaskSave(t, now) ==
    /\ pc[t] = "save"
    /\ rows' = SaveTestResult(res[t], now)
    /\ clock' = now
    /\ pc' = [pc EXCEPT ![t] = "append"]
    /\ hist' = Saved(res[t])
    /\ UNCHANGED <<outbounds, refresh, engine, op, phase, conc, queried, ctxDone, res, prov,
                   resultChan, failures, mu, snap, results, saveIdx, socks>>

MuFreeAlways == TRUE
MuFree == mu = ""

\* mu.Lock(), and append's read of the results slice
Lock(t) ==
    /\ pc[t] = "append"
    /\ MuFree
    /\ mu' = t
    /\ snap' = [snap EXCEPT ![t] = results]
    /\ pc' = [pc EXCEPT ![t] = "locked"]
    /\ UNCHANGED <<outbounds, refresh, rows, clock, engine, op, phase, conc, queried, ctxDone, res,
                   prov, resultChan, failures, results, saveIdx, socks, hist>>

\* results = append(results, result); mu.Unlock(); then the deferred
\* <-sem and wg.Done()
AppendUnlock(t) ==
    /\ pc[t] = "locked"
    /\ results' = Append(snap[t], res[t])
    /\ snap' = [snap EXCEPT ![t] = <<>>]
    /\ mu' = ""
    /\ pc' = [pc EXCEPT ![t] = "done"]
    /\ UNCHANGED <<outbounds, refresh, rows, clock, engine, op, phase, conc, queried, ctxDone, res,
                   prov, resultChan, failures, saveIdx, socks, hist>>

\* wg.Wait() returns
BatchWait ==
    /\ phase = "wait"
    /\ \A t \in Tags : pc[t] \in {"idle", "done"}
    /\ phase' = IF op.AndSave THEN "save" ELSE "returned"
    /\ UNCHANGED <<outbounds, refresh, rows, clock, engine, op, conc, queried, ctxDone, pc, res, prov,
                   resultChan, failures, mu, snap, results, saveIdx, socks, hist>>

\* one turn of the loop of TestAllAndSave / TestSelectedAndSave
BatchSave(now) ==
    /\ phase = "save"
    /\ saveIdx <= Len(results)
    /\ rows' = SaveTestResult(results[saveIdx], now)
    /\ clock' = now
    /\ saveIdx' = saveIdx + 1
    /\ hist' = Saved(results[saveIdx])
    /\ UNCHANGED <<outbounds, refresh, engine, op, phase, conc, queried, ctxDone, pc, res, prov,
                   resultChan, failures, mu, snap, results, socks>>

BatchReturn ==
    /\ phase = "save"
    /\ saveIdx > Len(results)
    /\ phase' = "returned"
    /\ UNCHANGED <<outbounds, refresh, rows, clock, engine, op, conc, queried, ctxDone, pc, res, prov,
                   resultChan, failures, mu, snap, results, saveIdx, socks, hist>>

\* the caller runs the operation again once it has returned: a new call
\* with fresh results, sem, mu and wg over the table as it is now
Restart ==
    /\ phase = "returned"
    /\ hist.runs < MaxRuns
    /\ phase' = "call"
    /\ conc' = 0
    /\ queried' = {}
    /\ pc' = [t \in Tags |-> "idle"]
    /\ res' = [t \in Tags |-> NilResult]
    /\ prov' = [t \in Tags |-> [p \in Providers |-> "idle"]]
    /\ resultChan' = [t \in Tags |-> <<>>]
    /\ failures' = [t \in Tags |-> 0]
    /\ mu' = ""
    /\ snap' = [t \in Tags |-> <<>>]
    /\ results' = <<>>
    /\ saveIdx' = 1
    /\ socks' = [t \in Tags |-> FALSE]
    /\ hist' = [NoHist EXCEPT !.runs = hist.runs + 1, !.lastGeo = hist.lastGeo,
                              !.saved = hist.saved, !.nsaves = hist.nsaves,
                              !.savedMissing = hist.savedMissing]
    /\ UNCHANGED <<outbounds, refresh, rows, clock, engine, op, ctxDone>>

-----------------------------------------------------------------------------
(* The environment *)

\* the caller cancels the context of an enriched batch (the reachability
\* batches take none)
Cancel ==
    /\ op.Enriched
    /\ ~ctxDone
    /\ phase \in {"call", "wait"}
    /\ ctxDone' = TRUE
    /\ hist' = [hist EXCEPT !.cancelEarly = ~hist.raceDone]
    /\ UNCHANGED <<outbounds, refresh, rows, clock, engine, op, phase, conc, queried, pc, res, prov,
                   resultChan, failures, mu, snap, results, saveIdx, socks>>

\* a user delete, or a replace-mode subscription refresh, removes a row
DeleteRow(t) ==
    /\ Exists(t)
    /\ phase \in {"wait", "save"}
    /\ rows' = [rows EXCEPT ![t] = NoRow]
    /\ UNCHANGED <<outbounds, refresh, clock, engine, op, phase, conc, queried, ctxDone, pc, res,
                   prov, resultChan, failures, mu, snap, results, saveIdx, socks,
                   hist>>

\* the results an overlapping operation persists for t: a failed dial, a
\* probe with a landing IP and a score, or once more the result that was
\* persisted last
OtherLocated ==
    [t \in Tags |->
        [TempResult(DialedResult(t, 7), OkResponse(4)) EXCEPT !.FraudScore = 83]]

OtherResults(t) ==
    {DialFailedResult(t), OtherLocated[t]}
    \cup (IF hist.saved.Tag = t THEN {hist.saved} ELSE {})

\* SaveTestResult(result) called by another operation that runs at the
\* same time (an overlapping batch): one UPDATE statement on the row
OtherSave(t, result, now) ==
    /\ hist.others < MaxOtherSaves
    /\ phase \in {"wait", "save"}
    /\ rows' = SaveTestResult(result, now)
    /\ clock' = now
    /\ hist' = [Saved(result) EXCEPT !.others = @ + 1]
    /\ UNCHANGED <<outbounds, refresh, engine, op, phase, conc, queried, ctxDone, pc, res, prov,
                   resultChan, failures, mu, snap, results, saveIdx, socks>>

-----------------------------------------------------------------------------
(* Specifications *)

Times == clock..MaxClock

TaskStep(t) ==
    \/ Acquire(t)
    \/ TestOutboundStart(t)
    \/ \E ms \in {-1} \cup Durations : ReachDialEnd(t, ms)
    \/ Recheck(t)
    \/ \E ms \in {-1} \cup Durations : RealLatencyEnd(t, ms)
    \/ CollectorRecv(t)
    \/ CollectorCtxDone(t)
    \/ ScamFailed(t)
    \/ \E page \in ScamPages : ScamPage(t, page)
    \/ \E now \in Times : TaskSave(t, now)
    \/ Lock(t)
    \/ AppendUnlock(t)

BatchStep ==
    \/ BatchRefused
    \/ BatchStart
    \/ BatchWait
    \/ \E now \in Times : BatchSave(now)
    \/ BatchReturn

TwoRows(ra, rb) == [t \in Tags |-> IF t = ProbeTag THEN ra ELSE rb]

\* the concurrency arguments: negative, zero, and up to MaxConcurrency
Concurrencies == -1..MaxConcurrency

\* Spec: a batch over two rows, both tasks running at once.  In the
\* enriched batches one of the two tasks runs the geo race (the socks row
\* when the runtime has no outbound loaded, the vless row when the other
\* row has no server), and a provider task's send waits for the collector
\* to have taken the one before it.
SpecRowsA == {OldRow("socks", TRUE), OldRow("vless", TRUE)}

SpecRowsB == {OldRow("hysteria", TRUE), OldRow("hysteria2", TRUE),
              NewRow("dns", FALSE), NewRow("direct", TRUE), NewRow("block", TRUE)}

ReachScenarios ==
    {<<TwoRows(ra, rb), "loaded", o>> :
        ra \in SpecRowsA, rb \in SpecRowsB,
        o \in {x \in Ops({<<ProbeTag>>}, Concurrencies) : ~x.Enriched}}

EnrichedScenarios ==
    {<<TwoRows(OldRow("socks", TRUE), OldRow("hysteria", TRUE)), "unloaded", o>> :
        o \in {x \in Ops({<<ProbeTag>>}, Concurrencies) : x.Enriched /\ ~x.Selected}}
    \cup
    {<<TwoRows(OldRow("vless", TRUE), NewRow("dns", FALSE)), "loaded", o>> :
        o \in {x \in Ops({<<ProbeTag>>}, Concurrencies) : x.Enriched /\ ~x.Selected}}
    \cup
    {<<TwoRows(OldRow("vless", TRUE), OldRow("hysteria", TRUE)), e, o>> :
        e \in {"nil", "unloaded"},
        o \in {x \in Ops({<<ProbeTag>>}, Concurrencies) : x.Enriched /\ x.Selected}}

Init ==
    /\ \E sc \in ReachScenarios \cup EnrichedScenarios :
          rows = sc[1] /\ engine = sc[2] /\ op = sc[3]
    /\ InitRun

Next ==
    \/ BatchStep
    \/ \E t \in Tags : TaskStep(t)
    \/ \E t \in Tags, p \in Providers, o \in Outcomes : ProviderReportDrained(t, p, o)

Spec == Init /\ [][Next]_vars

\* SpecLive: TestAllOutbounds(c) and TestAllOutboundsWithIP(c, ctx) over the
\* tables of Spec whose two rows are both probed, with the runtime running
\* and the outbounds loaded, for every concurrency
\* argument (one slot for the two tasks included), where every goroutine
\* that can take a step takes one: a probe's dials and requests come back
\* (each has a timeout), and the scheduler runs the batch and every task
LiveScenarios ==
    {sc \in ReachScenarios \cup EnrichedScenarios :
        /\ ~sc[3].Selected /\ ~sc[3].AndSave
        /\ \A t \in Tags : ~IsSkippedType(sc[1][t].Type)
        /\ sc[2] = "loaded"}

InitLive ==
    /\ \E sc \in LiveScenarios :
          rows = sc[1] /\ engine = sc[2] /\ op = sc[3]
    /\ InitRun

BatchRun == BatchStart \/ BatchWait

NextLive ==
    \/ BatchRun
    \/ \E t \in Tags : TaskStep(t)
    \/ \E t \in Tags, p \in Providers, o \in Outcomes : ProviderReportDrained(t, p, o)

SpecLive ==
    /\ InitLive
    /\ [][NextLive]_vars
    /\ WF_vars(BatchRun)
    /\ \A t \in Tags : WF_vars(TaskStep(t))

\* SpecProbe: a batch over the one row ProbeTag, every interleaving of the
\* provider tasks with the collector, and rows deleted under the probe
EnrichedTypes == {"vless", "socks", "hysteria2", "dns", "direct"}

ProbeRows(types) ==
    {NewRow(ty, FALSE) : ty \in types} \cup {OldRow(ty, TRUE) : ty \in types}
    \cup {NoRow}

\* the table of SpecProbe: the probed row, and a row of a skipped type
\* that no batch touches
OnlyProbeTag(r) ==
    [t \in Tags |-> IF t = ProbeTag THEN r ELSE OldRow("direct", TRUE)]

ProbeOps == {o \in Ops({<<ProbeTag>>}, {1}) : ~o.Selected}

InitProbe ==
    /\ engine \in {"nil", "unloaded", "loaded"}
    /\ op \in ProbeOps
    /\ rows \in {OnlyProbeTag(r) :
                   r \in ProbeRows(IF op.Enriched THEN EnrichedTypes ELSE AllTypes)}
    /\ InitRun

NextProbe ==
    \/ BatchStep
    \/ Cancel
    \/ TaskStep(ProbeTag)
    \/ \E p \in Providers, o \in Outcomes : ProviderReport(ProbeTag, p, o)
    \/ DeleteRow(ProbeTag)

SpecProbe == InitProbe /\ [][NextProbe]_vars

\* SpecRepeat: TestSelectedAndSave([ProbeTag], 1) run MaxRuns times over a
\* row whose reachability dial succeeds every time and whose scamalytics
\* request fails
RepeatRows ==
    {OnlyProbeTag(r) : r \in {OldRow("socks", TRUE), OldRow("vless", TRUE)}}

InitRepeat ==
    /\ engine = "loaded"
    /\ op = [Enriched |-> TRUE, AndSave |-> TRUE, Selected |-> TRUE,
             Req |-> <<ProbeTag>>, Concurrency |-> 1]
    /\ rows \in RepeatRows
    /\ InitRun

NextRepeat ==
    \/ BatchStart
    \/ BatchWait
    \/ \E now \in Times : BatchSave(now)
    \/ BatchReturn
    \/ Restart
    \/ Acquire(ProbeTag)
    \/ TestOutboundStart(ProbeTag)
    \/ \E ms \in Durations : ReachDialEnd(ProbeTag, ms)
    \/ Recheck(ProbeTag)
    \/ \E ms \in {-1} \cup Durations : RealLatencyEnd(ProbeTag, ms)
    \/ \E p \in Providers, o \in Outcomes : ProviderReportDrained(ProbeTag, p, o)
    \/ CollectorRecv(ProbeTag)
    \/ CollectorCtxDone(ProbeTag)
    \/ ScamFailed(ProbeTag)
    \/ Lock(ProbeTag)
    \/ AppendUnlock(ProbeTag)

SpecRepeat == InitRepeat /\ [][NextRepeat]_vars

\* SpecSelect: TestSelectedOutbounds(tags, 0) and, with the runtime not
\* running, TestSelectedOutboundsWithIP(tags, 0, ctx), for every list of up
\* to MaxReq tags over a table of two tags with or without a row
SelectRows == {NoRow, OldRow("vless", TRUE), NewRow("dns", FALSE),
               NewRow("direct", TRUE)}

SeqsUpTo(S, n) == UNION {[1..k -> S] : k \in 0..n}

InitSelect ==
    /\ engine = "nil"
    /\ op \in [Enriched : BOOLEAN, AndSave : {FALSE}, Selected : {TRUE},
               Req : SeqsUpTo(Tags, MaxReq), Concurrency : {0}]
    /\ rows \in [Tags -> SelectRows]
    /\ InitRun

NextSelect ==
    \/ BatchStart
    \/ BatchWait
    \/ \E t \in Tags :
          \/ Acquire(t)
          \/ TestOutboundStart(t)
          \/ \E ms \in {-1} \cup Durations : ReachDialEnd(t, ms)
          \/ Recheck(t)
          \/ \E now \in Times : TaskSave(t, now)
          \/ Lock(t)
          \/ AppendUnlock(t)

SpecSelect == InitSelect /\ [][NextSelect]_vars

\* SpecOverlap: TestAllOutbounds(1) or TestAllAndSave(1) over one reachable
\* row, while another operation persists results for the same tag
InitOverlap ==
    /\ engine = "loaded"
    /\ op \in {o \in ProbeOps : ~o.Enriched \/ o.AndSave}
    /\ rows \in {OnlyProbeTag(r) : r \in {OldRow("vless", TRUE), NewRow("socks", TRUE)}}
    /\ InitRun

NextOverlap ==
    \/ BatchStart
    \/ BatchWait
    \/ \E now \in Times : BatchSave(now)
    \/ BatchReturn
    \/ Acquire(ProbeTag)
    \/ TestOutboundStart(ProbeTag)
    \/ \E ms \in {-1} \cup Durations : ReachDialEnd(ProbeTag, ms)
    \/ Recheck(ProbeTag)
    \/ \E ms \in {-1} \cup Durations : RealLatencyEnd(ProbeTag, ms)
    \/ \E p \in Providers, o \in Outcomes : ProviderReportDrained(ProbeTag, p, o)
    \/ CollectorRecv(ProbeTag)
    \/ ScamFailed(ProbeTag)
    \/ \E page \in ScamPages : ScamPage(ProbeTag, page)
    \/ \E now \in Times : TaskSave(ProbeTag, now)
    \/ Lock(ProbeTag)
    \/ AppendUnlock(ProbeTag)
    \/ \E r \in OtherResults(ProbeTag), now \in Times : OtherSave(ProbeTag, r, now)

SpecOverlap == InitOverlap /\ [][NextOverlap]_vars

------------------------------------------------------------------------------
(* executeIPLookups with the buffer of resultChan kept after the return *)

\* make(chan *NodeTestResult, len(tasks))
ChanCapOne(n) == 1
ChanCap(n) == n

\* resultChan <- &tempResult, or resultChan <- nil: the send waits while the
\* buffer is full.  After the collector has returned nothing reads the
\* channel, and what is sent then stays in the buffer unread (kept as nil).
TaskSend(t, p, outcome) ==
    /\ prov[t][p] = "run"
    /\ outcome \in OutcomesOf(p)
    /\ outcome # "fail" => ~DialCtxCancelled(t)
    /\ pc[t] # "race" => outcome = "fail"
    /\ Len(resultChan[t]) < ChanCap(NumProviders)
    /\ prov' = [prov EXCEPT ![t][p] = "sent"]
    /\ resultChan' = [resultChan EXCEPT ![t] =
                        Append(@, IF pc[t] = "race"
                                  THEN Message(res[t], p, outcome)
                                  ELSE NilResult)]
    /\ UNCHANGED <<outbounds, refresh, rows, clock, engine, op, phase, conc,
                   queried, ctxDone, pc, res, failures, mu, snap, results,
                   saveIdx, socks, hist>>

\* case res := <-resultChan, which takes one message out of the buffer
SelectRecv(t) ==
    /\ pc[t] = "race"
    /\ resultChan[t] # <<>>
    /\ LET m == Head(resultChan[t]) IN
        IF IsWinner(m)
        THEN /\ res' = [res EXCEPT ![t] = AfterRace(m)]
             /\ pc' = [pc EXCEPT ![t] = IF m.LandingIP = "" THEN "append" ELSE "scam"]
             /\ failures' = failures
        ELSE /\ res' = [res EXCEPT ![t] =
                          IF AllFailed(failures[t] + 1) THEN AfterRace(@) ELSE @]
             /\ pc' = [pc EXCEPT ![t] =
                          IF AllFailed(failures[t] + 1) THEN "append" ELSE @]
             /\ failures' = [failures EXCEPT ![t] = @ + 1]
    /\ resultChan' = [resultChan EXCEPT ![t] = Tail(@)]
    /\ UNCHANGED <<outbounds, refresh, rows, clock, engine, op, phase, conc,
                   queried, ctxDone, prov, mu, snap, results, saveIdx, socks,
                   hist>>

\* case <-ctx.Done(), which leaves the buffer as it is
SelectCtxDone(t) ==
    /\ pc[t] = "race"
    /\ res' = [res EXCEPT ![t] = AfterRace(@)]
    /\ pc' = [pc EXCEPT ![t] = "append"]
    /\ UNCHANGED <<outbounds, refresh, rows, clock, engine, op, phase, conc,
                   queried, ctxDone, prov, resultChan, failures, mu, snap,
                   results, saveIdx, socks, hist>>

\* SpecRace: TestAllOutboundsWithIP(1, ctx) over one row, with every
\* interleaving of the provider goroutines and the collector.  A provider
\* goroutine that can send does send (the Go scheduler runs every runnable
\* goroutine); nothing is assumed of the collector.
InitRace ==
    /\ engine = "loaded"
    /\ op \in {o \in ProbeOps : o.Enriched /\ ~o.AndSave}
    /\ rows \in {OnlyProbeTag(r) : r \in {OldRow("vless", TRUE), NewRow("socks", TRUE)}}
    /\ InitRun

NextRace ==
    \/ BatchStart
    \/ BatchWait
    \/ Acquire(ProbeTag)
    \/ TestOutboundStart(ProbeTag)
    \/ \E ms \in {-1} \cup Durations : ReachDialEnd(ProbeTag, ms)
    \/ Recheck(ProbeTag)
    \/ \E ms \in {-1} \cup Durations : RealLatencyEnd(ProbeTag, ms)
    \/ \E p \in Providers, o \in Outcomes : TaskSend(ProbeTag, p, o)
    \/ SelectRecv(ProbeTag)
    \/ SelectCtxDone(ProbeTag)
    \/ ScamFailed(ProbeTag)
    \/ Lock(ProbeTag)
    \/ AppendUnlock(ProbeTag)

SpecRace ==
    /\ InitRace
    /\ [][NextRace]_vars
    /\ \A p \in Providers : WF_vars(\E o \in Outcomes : TaskSend(ProbeTag, p, o))

------------------------------------------------------------------------------
(* SubscriptionService.Refresh *)

MaxFeed == 2
MaxRefreshes == 2

UpdateModes == {"replace", "incremental"}

\* what ParseSubscription returns: the tags of the imported outbounds, in order
Feeds == SeqsUpTo(Tags, MaxFeed)

\* db.Where("tag = ?", tag).First(&existing).Error == nil
TagTaken(table, tag) == \E r \in table : r.Tag = tag

\* Id is the auto-incremented primary key
NextId(table) ==
    IF table = {} THEN 1
    ELSE 1 + CHOOSE n \in {r.Id : r \in table} : \A r \in table : r.Id <= n

CreateNoUnique(table, row) == [table |-> table \cup {row}, err |-> FALSE]

\* db.Create(outbound): the unique index on Tag rejects a second row with a
\* tag the table already holds
Create(table, row) ==
    IF TagTaken(table, row.Tag) THEN [table |-> table, err |-> TRUE]
    ELSE [table |-> table \cup {row}, err |-> FALSE]

\* Refresh fetched and parsed the subscription; replace mode deletes the
\* subscription's own outbounds first
RefreshStart(s, mode, feed) ==
    /\ refresh[s].pc = "idle"
    /\ refresh[s].runs < MaxRefreshes
    /\ outbounds' = IF mode = "replace" THEN {r \in outbounds : r.Sub # s}
                    ELSE outbounds
    /\ refresh' = [refresh EXCEPT ![s] =
                     [pc |-> "loop", mode |-> mode, todo |-> feed,
                      Success |-> 0, Failed |-> 0, runs |-> @.runs + 1]]
    /\ UNCHANGED <<rows, clock, engine, op, phase, conc, queried, ctxDone, pc,
                   res, prov, resultChan, failures, mu, snap, results, saveIdx,
                   socks, hist>>

\* the head of the import loop: incremental mode skips a tag that exists
RefreshNext(s) ==
    /\ refresh[s].pc = "loop"
    /\ refresh[s].todo # <<>>
    /\ refresh' = [refresh EXCEPT ![s] =
                     IF @.mode = "incremental" /\ TagTaken(outbounds, Head(@.todo))
                     THEN [@ EXCEPT !.todo = Tail(@)]
                     ELSE [@ EXCEPT !.pc = "create"]]
    /\ UNCHANGED <<outbounds, rows, clock, engine, op, phase, conc, queried,
                   ctxDone, pc, res, prov, resultChan, failures, mu, snap,
                   results, saveIdx, socks, hist>>

\* db.Create of the imported outbound, counted as Success or Failed
RefreshCreate(s) ==
    /\ refresh[s].pc = "create"
    /\ LET c == Create(outbounds, [Id |-> NextId(outbounds),
                                   Tag |-> Head(refresh[s].todo), Sub |-> s])
       IN /\ outbounds' = c.table
          /\ refresh' = [refresh EXCEPT ![s] =
                           [@ EXCEPT !.pc = "loop", !.todo = Tail(@),
                                     !.Success = IF c.err THEN @ ELSE @ + 1,
                                     !.Failed = IF c.err THEN @ + 1 ELSE @]]
    /\ UNCHANGED <<rows, clock, engine, op, phase, conc, queried, ctxDone, pc,
                   res, prov, resultChan, failures, mu, snap, results, saveIdx,
                   socks, hist>>

\* Refresh returns its RefreshResult
RefreshReturn(s) ==
    /\ refresh[s].pc = "loop"
    /\ refresh[s].todo = <<>>
    /\ refresh' = [refresh EXCEPT ![s].pc = "idle"]
    /\ UNCHANGED <<outbounds, rows, clock, engine, op, phase, conc, queried,
                   ctxDone, pc, res, prov, resultChan, failures, mu, snap,
                   results, saveIdx, socks, hist>>

\* SpecRefresh: up to MaxRefreshes Refresh calls of each of two subscriptions,
\* in either mode, interleaved statement by statement
InitRefresh ==
    /\ engine = "nil"
    /\ op = [Enriched |-> FALSE, AndSave |-> FALSE, Selected |-> FALSE,
             Req |-> <<>>, Concurrency |-> 0]
    /\ rows = [t \in Tags |-> NoRow]
    /\ InitRun

NextRefresh ==
    \E s \in Subs :
       \/ \E mode \in UpdateModes, feed \in Feeds : RefreshStart(s, mode, feed)
       \/ RefreshNext(s)
       \/ RefreshCreate(s)
       \/ RefreshReturn(s)

SpecRefresh == InitRefresh /\ [][NextRefresh]_vars

\* SpecInfer: the enriched batch over one reachable socks row in which
\* ip-api answers with every isp and hostname of the bounded sets
IspPieces == {"Hetzner", "Comcast", "Amazon", "Deutsche", "Telekom", "Acme"}
HostPieces == {"EC2", "Amazon", "Acme"}

StringsUpTo(pieces, n) == UNION {[1..k -> pieces] : k \in 0..n}

InitInfer ==
    /\ engine = "nil"
    /\ op = [Enriched |-> TRUE, AndSave |-> FALSE, Selected |-> FALSE,
             Req |-> <<>>, Concurrency |-> 1]
    /\ rows = OnlyProbeTag(OldRow("socks", TRUE))
    /\ InitRun

NextInfer ==
    \/ BatchStart
    \/ BatchWait
    \/ Acquire(ProbeTag)
    \/ TestOutboundStart(ProbeTag)
    \/ \E ms \in {-1} \cup Durations : ReachDialEnd(ProbeTag, ms)
    \/ Recheck(ProbeTag)
    \/ \E isp \in StringsUpTo(IspPieces, MaxIspPieces),
          hostname \in StringsUpTo(HostPieces, MaxHostPieces) :
            ProviderAnswer(ProbeTag, 1, isp, hostname)
    \/ CollectorRecv(ProbeTag)
    \/ ScamFailed(ProbeTag)
    \/ Lock(ProbeTag)
    \/ AppendUnlock(ProbeTag)

SpecInfer == InitInfer /\ [][NextInfer]_vars

-----------------------------------------------------------------------------
(* Quantities the properties speak of *)

\* dials of the task goroutine itself that are in flight: the reachability
\* dial, the real-latency dial, the scamalytics request
TaskDial(t) == IF pc[t] \in {"reachDial", "rlDial", "scam"} THEN 1 ELSE 0

\* dials of the provider tasks of t's geo race that are in flight
GeoDials(t) == Cardinality({p \in Providers : prov[t][p] = "run"})

RECURSIVE SumOver(_, _)
SumOver(S, n) ==
    IF S = {} THEN n
    ELSE LET t == CHOOSE x \in S : TRUE IN
         SumOver(S \ {t}, n + TaskDial(t) + GeoDials(t))

RECURSIVE SumTaskDials(_, _)
SumTaskDials(S, n) ==
    IF S = {} THEN n
    ELSE LET t == CHOOSE x \in S : TRUE IN SumTaskDials(S \ {t}, n + TaskDial(t))

InFlight == SumOver(Tags, 0)
TaskDials == SumTaskDials(Tags, 0)

\* the type sets of the data model
SyntheticTypes == {"direct", "block", "selector", "urltest", "dns"}
UDPOnlyTypes == {"hysteria", "hysteria2", "tuic", "wireguard"}

ResultsOf(t) == {i \in 1..Len(results) : results[i].Tag = t}

\* the step is a SaveTestResult call
IsSave == hist'.nsaves # hist.nsaves

-----------------------------------------------------------------------------
(* C1..C10 *)

\* C1: no batch submits a probe task for a row of a synthetic type (direct,
\* block, selector, urltest, dns), and no result carries its tag.
C1_SyntheticNeverProbed ==
    \A t \in Tags :
        rows[t].Type \in SyntheticTypes
            => t \notin hist.submitted /\ ResultsOf(t) = {}

\* C2: the reachability probe of a UDP-only outbound (hysteria, hysteria2,
\* tuic, wireguard) with a server and a port makes no TCP dial and returns
\* available = true, latency = 0.
C2_UDPOnlyNoDial ==
    \A t \in Tags :
        rows[t].Type \in UDPOnlyTypes /\ rows[t].Valid
            => /\ t \notin hist.reachDialled
               /\ \A i \in ResultsOf(t) : results[i].Available /\ results[i].Latency = 0

\* C3, as claimed: with concurrency k the dials in flight, geo-provider
\* dials included, never exceed k.
C3_InFlightAtMostK == phase = "wait" => InFlight <= conc

\* C3, amended: with concurrency k the dials of the task goroutines in
\* flight (reachability, real latency, scamalytics) never exceed k, and in
\* a reachability-only batch no more than k dials are in flight.
C3_TaskDialsAtMostK ==
    phase = "wait" => /\ TaskDials <= conc
                      /\ ~op.Enriched => InFlight <= conc

\* C3: concurrency 1, one task at its scamalytics request while losing
\* providers of its race are still dialling, the other task waiting.
C3_Witness ==
    /\ conc = 1 /\ op.Enriched
    /\ TaskDials = 1 /\ InFlight > 1
    /\ \E t \in Tags : pc[t] = "waitSem"

\* C4: the result the collector accepts has a non-empty landing IP: an
\* answer without ip neither wins nor ends the race.
C4_WinnerHasIP ==
    \A t \in Tags :
        ~IsNil(hist.accepted[t]) => hist.accepted[t].LandingIP # ""

\* C5: when the batch context was cancelled before any geo race of the
\* batch had completed, the returned results carry reachability fields
\* only.
C5_NoEnrichmentAfterEarlyCancel ==
    phase = "returned" /\ hist.cancelEarly
        => \A i \in 1..Len(results) :
              /\ results[i].LandingIP = "" /\ results[i].Country = ""
              /\ results[i].Region = "" /\ results[i].City = ""
              /\ results[i].ISP = <<>> /\ results[i].IPType = ""
              /\ results[i].FraudScore = 0

\* C6: persisting a result with available = false leaves the row's
\* landingIP, country, region, city, ipType and fraudScore as they were.
C6_UnavailableKeepsLocation ==
    [][IsSave /\ ~hist'.saved.Available
         => LET t == hist'.saved.Tag IN
            /\ rows'[t].LandingIP = rows[t].LandingIP
            /\ rows'[t].Country = rows[t].Country
            /\ rows'[t].Region = rows[t].Region
            /\ rows'[t].City = rows[t].City
            /\ rows'[t].IPType = rows[t].IPType
            /\ rows'[t].FraudScore = rows[t].FraudScore]_vars

\* C6: an unavailable result was persisted on a row that had a location.
C6_Witness ==
    /\ hist.nsaves > 0 /\ ~hist.saved.Available
    /\ \E t \in Tags :
          /\ hist.saved.Tag = t /\ rows[t].LandingIP = "ip0"
          /\ ~rows[t].Available /\ rows[t].LastTestTime >= StartClock

\* the operations that persist: the reachability batches (in the task)
\* and TestAllAndSave / TestSelectedAndSave (after the batch)
Persists == ~op.Enriched \/ op.AndSave

\* C7, as claimed: when a batch has returned, every result of a row that
\* exists has the row's available equal to the result's and the row's
\* lastTestTime set during the batch.
C7_EveryProbeUpdatesRow ==
    phase = "returned"
        => \A i \in 1..Len(results) :
              Exists(results[i].Tag)
                  => /\ rows[results[i].Tag].Available = results[i].Available
                     /\ rows[results[i].Tag].LastTestTime >= StartClock

\* C7, amended: every persisted probe result of an existing row sets the row's
\* available to the result's and lastTestTime to the time of the call,
\* with or without a landing IP; and when a persisting operation has
\* returned, every result of a row that exists has been persisted.
C7_AvailableAndTimeUpdated ==
    /\ [][IsSave /\ rows[hist'.saved.Tag].Type # ""
            => LET t == hist'.saved.Tag IN
               /\ rows'[t].Available = hist'.saved.Available
               /\ rows'[t].LastTestTime = clock']_vars
    /\ [](phase = "returned" /\ Persists
            => \A i \in 1..Len(results) :
                  Exists(results[i].Tag)
                      => /\ rows[results[i].Tag].Available = results[i].Available
                         /\ rows[results[i].Tag].LastTestTime >= StartClock)

\* C7: an enriched batch returned a reachable result without landing IP,
\* and the row has the new available and time.
C7_Witness ==
    /\ phase = "returned" /\ op.AndSave
    /\ \E i \in 1..Len(results) :
          /\ results[i].Available /\ results[i].LandingIP = ""
          /\ rows[results[i].Tag].Available
          /\ rows[results[i].Tag].LastTestTime = MaxClock

\* C8: fraudScore and ipType of a row change only in a SaveTestResult of
\* a result with a non-empty landingIP, which writes the result's values.
C8_ScoreOnlyWithLandingIP ==
    [][\A t \in Tags :
          /\ rows'[t].Type # ""
          /\ \/ rows'[t].FraudScore # rows[t].FraudScore
             \/ rows'[t].IPType # rows[t].IPType
          => /\ IsSave /\ hist'.saved.Tag = t /\ hist'.saved.LandingIP # ""
             /\ rows'[t].FraudScore = hist'.saved.FraudScore
             /\ rows'[t].IPType = hist'.saved.IPType]_vars

\* C8: a reachable result without landing IP was persisted and the row
\* still has its earlier score and type.
C8_Witness ==
    /\ hist.nsaves > 0 /\ hist.saved.Available /\ hist.saved.LandingIP = ""
    /\ \E t \in Tags :
          /\ hist.saved.Tag = t /\ rows[t].FraudScore = 33
          /\ rows[t].IPType = "ISP" /\ rows[t].LastTestTime >= StartClock

\* C9, as claimed: a result has latency -1 exactly when the TCP dial to
\* server:port was made and failed.
C9_MinusOneIffDialFailed ==
    \A i \in 1..Len(results) :
        results[i].Latency = -1 <=> results[i].Tag \in hist.reachFailed

\* C9, amended: a result has latency -1 exactly when the config has no
\* server or port (no dial is made) or the TCP dial was made and failed.
C9_MinusOneIffInvalidOrDialFailed ==
    /\ hist.reachFailed \subseteq hist.reachDialled
    /\ \A i \in 1..Len(results) :
          /\ results[i].Latency = -1
                <=> ~results[i].Valid \/ results[i].Tag \in hist.reachFailed
          /\ ~results[i].Valid => results[i].Tag \notin hist.reachDialled

\* C9: a returned result with latency -1 after a failed dial.
C9_Witness ==
    \E i \in 1..Len(results) :
        results[i].Latency = -1 /\ results[i].Tag \in hist.reachFailed

\* C10: a batch that started its tasks does not fail, and once the tasks
\* have finished the results hold exactly one entry, the task's result,
\* for every submitted tag whose probe gave a result, and nothing else.
C10_ResultsComplete ==
    /\ phase = "error" => hist.submitted = {}
    /\ phase \in {"save", "returned"}
         => /\ \A t \in hist.submitted :
                  ~IsNil(res[t])
                      => /\ Cardinality(ResultsOf(t)) = 1
                         /\ \A i \in ResultsOf(t) : results[i] = res[t]
            /\ Len(results) = Cardinality({t \in hist.submitted : ~IsNil(res[t])})

\* C10: both tasks ran at once and the batch returned two results, one of
\* them with its error set.
C10_Witness ==
    /\ phase = "returned" /\ conc > 1
    /\ Len(results) = 2
    /\ \E i \in 1..Len(results) : results[i].Error # ""

-----------------------------------------------------------------------------
(* C11..C20 *)

\* the task's probe has returned
Probed(t) == pc[t] \in {"save", "append", "locked", "done"}

\* C11: an enriched operation over a socks row does not depend on the
\* runtime: with the runtime not running the operation is not refused,
\* no result of the row carries an engine error, and a reachable socks
\* row gets its geo race.
C11_SocksNeedsNoEngine ==
    \A t \in Tags :
        op.Enriched /\ engine = "nil" /\ rows[t].Type = "socks" /\ rows[t].Valid
            => /\ phase # "error"
               /\ res[t].Error \notin {ErrNoEngine, ErrNotLoaded}
               /\ Probed(t) /\ res[t].Available => socks[t]

\* C12: for a reachable row that is not socks, the enriched probe returns
\* the reachability result with error "sing-box not running .." when the
\* outbound manager is absent and the not-loaded error when it lacks the
\* tag; the landing IP stays empty and no real-latency, geo or scamalytics
\* dial is made.
C12_EngineErrorKeepsReachability ==
    /\ [][\A t \in Tags :
            /\ pc[t] = "recheck" /\ pc'[t] # "recheck"
            /\ Exists(t) /\ rows[t].Type # "socks" /\ engine # "loaded"
            => /\ res'[t] = [res[t] EXCEPT !.Error = IF engine = "nil"
                                                     THEN ErrNoEngine
                                                     ELSE ErrNotLoaded]
               /\ pc'[t] = "append"
               /\ prov'[t] = prov[t]]_vars
    /\ [](\A t \in Tags :
            res[t].Error \in {ErrNoEngine, ErrNotLoaded}
                => /\ res[t].Available /\ res[t].Latency >= 0
                   /\ res[t].LandingIP = "" /\ res[t].RealLatency = 0
                   /\ res[t].FraudScore = 0
                   /\ TaskDial(t) = 0 /\ GeoDials(t) = 0
                   /\ \A p \in Providers : prov[t][p] = "idle")

\* C12: a dialled row came back with the engine error and its latency.
C12_Witness ==
    /\ engine = "nil" /\ phase = "returned"
    /\ \E i \in 1..Len(results) :
          /\ results[i].Error = ErrNoEngine /\ results[i].Available
          /\ results[i].Latency = 7 /\ results[i].Tag \in hist.reachDialled

\* C13: when the row is reachable and all four providers have failed, the
\* result has error "all IP lookup services failed", available = true and
\* no landing IP; persisting it gives the row the new available and
\* lastTestTime and leaves its landingIP, country, region and city.
C13_AllProvidersFailed ==
    /\ [](\A t \in Tags :
            failures[t] = NumProviders
                => /\ res[t].Error = ErrAllFailed
                   /\ res[t].Available /\ res[t].LandingIP = "")
    /\ [][IsSave /\ failures[hist'.saved.Tag] = NumProviders
               /\ Exists(hist'.saved.Tag)
            => LET t == hist'.saved.Tag IN
               /\ rows'[t].Available /\ rows'[t].LastTestTime = clock'
               /\ Location(rows'[t]) = Location(rows[t])]_vars

\* C13: the four providers failed, the result was persisted and the row
\* has the new time and its earlier location.
C13_Witness ==
    /\ phase = "returned" /\ op.AndSave
    /\ \E t \in Tags :
          /\ failures[t] = NumProviders /\ hist.saved.Tag = t
          /\ hist.saved.Error = ErrAllFailed
          /\ rows[t].Available /\ rows[t].LastTestTime >= StartClock
          /\ rows[t].LandingIP = "ip0" /\ rows[t].City = "y0"

\* C14: after a failed reachability dial the result is available = false,
\* latency = -1 with the network error, and the probe of that tag goes no
\* further: no outbound lookup, no real-latency probe, no geo provider and
\* no scamalytics request, up to and including the persisted result.
C14_DialFailureStops ==
    \A t \in hist.reachFailed :
        /\ res[t] = DialFailedResult(t)
        /\ ~res[t].Available /\ res[t].Latency = -1 /\ res[t].Error # ""
        /\ pc[t] \notin {"recheck", "rlDial", "race", "scam"}
        /\ ~socks[t]
        /\ \A p \in Providers : prov[t][p] = "idle"
        /\ \A i \in ResultsOf(t) : results[i] = DialFailedResult(t)
        /\ hist.saved.Tag = t => hist.saved = DialFailedResult(t)

\* C14: an enriched batch persisted the result of a failed dial.
C14_Witness ==
    /\ op.Enriched /\ hist.nsaves > 0
    /\ hist.saved.Tag \in hist.reachFailed
    /\ hist.saved.Latency = -1 /\ ~hist.saved.Available

\* C15: TestOutbound on a tag that has no row returns no result (nil and
\* the lookup error); a batch whose row is gone when the task looks it up
\* drops the tag: the task ends without an entry, no entry of the results
\* is nil, and the batch is not failed.
C15_MissingRowDropped ==
    /\ [][\A t \in Tags :
            pc[t] = "start" /\ pc'[t] # "start" /\ ~Exists(t)
                => IsNil(res'[t]) /\ pc'[t] = "done" /\ results' = results]_vars
    /\ [](\A t \in Tags : pc[t] = "done" /\ IsNil(res[t]) => ResultsOf(t) = {})
    /\ [](\A i \in 1..Len(results) : ~IsNil(results[i]))
    /\ [](hist.submitted \subseteq queried)
    /\ [](hist.submitted # {} => phase # "error")

\* C15: the row was deleted before its task looked it up, and the batch
\* returned without an entry.
C15_Witness ==
    /\ phase = "returned"
    /\ ProbeTag \in hist.submitted
    /\ pc[ProbeTag] = "done" /\ IsNil(res[ProbeTag])
    /\ results = <<>>

\* C16, as claimed: a hysteria2 row with server and port is never TCP
\* dialled, no geo provider is dialled for it, and its result is
\* available = true, latency = 0, realLatency = 0, landingIP = "", in the
\* reachability batches and in the enriched ones.
C16_Hysteria2FastPath ==
    \A t \in Tags :
        rows[t].Type = "hysteria2" /\ rows[t].Valid
            => /\ t \notin hist.reachDialled
               /\ \A p \in Providers : prov[t][p] = "idle"
               /\ Probed(t)
                    => /\ res[t].Available /\ res[t].Latency = 0
                       /\ res[t].RealLatency = 0 /\ res[t].LandingIP = ""

\* C16, amended: a hysteria2 row with server and port is never TCP dialled
\* and its result is available = true, latency = 0; realLatency = 0,
\* landingIP = "" and no geo dial hold in the reachability batches, and in
\* the enriched ones when the runtime is absent or has not loaded the tag.
C16_Hysteria2NoTCPDial ==
    \A t \in Tags :
        rows[t].Type = "hysteria2" /\ rows[t].Valid
            => /\ t \notin hist.reachDialled
               /\ Probed(t) => res[t].Available /\ res[t].Latency = 0
               /\ ~op.Enriched \/ engine # "loaded"
                    => /\ \A p \in Providers : prov[t][p] = "idle"
                       /\ pc[t] \notin {"rlDial", "race", "scam"}
                       /\ Probed(t)
                            => res[t].RealLatency = 0 /\ res[t].LandingIP = ""

\* C16: with the tag loaded in the runtime the enriched probe of a
\* hysteria2 row went on to the geo race and came back with a landing IP.
C16_Witness ==
    /\ op.Enriched /\ engine = "loaded"
    /\ \E i \in 1..Len(results) :
          /\ rows[results[i].Tag].Type = "hysteria2"
          /\ results[i].Tag \notin hist.reachDialled
          /\ results[i].Available /\ results[i].Latency = 0
          /\ results[i].LandingIP # ""

\* the fraud score the claim derives from a page
ClaimedFraudScore(page) ==
    IF page.score >= 0 THEN page.score
    ELSE IF "High Risk" \in page.risk THEN 75
    ELSE IF "Medium Risk" \in page.risk THEN 50
    ELSE IF "Low Risk" \in page.risk THEN 15
    ELSE 0

\* C17: on the adapter path and on the SOCKS5 path, the fraud score of a
\* result after a scamalytics page was received is the number after
\* "Fraud Score:" when the page has one, else 75 / 50 / 15 for a page with
\* "High Risk" / "Medium Risk" / "Low Risk", else 0.
C17_FraudScoreFromPage ==
    [][\A t \in Tags, page \in ScamPages :
          ScamPage(t, page) => res'[t].FraudScore = ClaimedFraudScore(page)]_vars

\* a string contains one of the keywords, case-insensitively
MatchesAny(s, kws) ==
    \E k \in kws : \E i \in 0..(Len(s) - Len(k)) :
        \A j \in 1..Len(k) : LowerWord(s[i + j]) = k[j]

\* the type the claim gives to an isp and a hostname
ClaimedIPType(isp, hostname) ==
    IF isp = <<>> /\ hostname = <<>> THEN ""
    ELSE IF MatchesAny(hostname, hostKeywords) THEN "Hosting"
    ELSE IF MatchesAny(isp, hostingKeywords) THEN "Hosting"
    ELSE IF MatchesAny(isp, ispKeywords) THEN "ISP"
    ELSE "Business"

\* C18: the ipType a provider answer gets from inferIPType(isp, hostname)
\* is "" when both are empty, else Hosting when the hostname contains a
\* hostname keyword, else Hosting when the isp contains a hosting keyword,
\* else ISP when the isp contains an ISP keyword, else Business, matching
\* case-insensitively anywhere in the string.
C18_InferIPType ==
    \A t \in Tags :
        /\ \A i \in 1..Len(resultChan[t]) :
              resultChan[t][i].IPType
                  = ClaimedIPType(hist.answer.isp, hist.answer.hostname)
        /\ ~IsNil(hist.accepted[t])
              => /\ hist.accepted[t].ISP = hist.answer.isp
                 /\ res[t].IPType
                      = ClaimedIPType(hist.answer.isp, hist.answer.hostname)

\* C18: the answer had isp "Comcast" and hostname "EC2", and the result is
\* Hosting: the hostname rule came first.
C18_Witness ==
    /\ hist.answer = [isp |-> <<"Comcast">>, hostname |-> <<"EC2">>]
    /\ Len(results) = 1 /\ results[1].IPType = "Hosting"
    /\ results[1].ISP = <<"Comcast">>

\* C19: however many times TestSelectedAndSave([t], 1) has run over an
\* always-reachable row, when it has returned the row is available and
\* its landingIP, country, region and city are those of the last persisted
\* result that had a landing IP (those the row started with when there was
\* none).
C19_RepeatedProbeKeepsLastGeo ==
    phase = "returned" /\ Exists(ProbeTag)
        => /\ rows[ProbeTag].Available
           /\ Location(rows[ProbeTag]) = hist.lastGeo[ProbeTag]

\* C19: the first run found provider 2's location, the second run's geo
\* race failed, and the row still has provider 2's location.
C19_Witness ==
    /\ phase = "returned" /\ hist.runs = 2
    /\ hist.saved.Tag = ProbeTag /\ hist.saved.LandingIP = ""
    /\ rows[ProbeTag].Available /\ rows[ProbeTag].LandingIP = "ip2"
    /\ rows[ProbeTag].City = "y2"

\* C20: a SaveTestResult for a tag whose row is gone changes nothing in the
\* table (no row is created, no other row is touched), a SaveTestResult
\* changes no row but that of its tag, and the batch, not failed, still
\* returns the result.
C20_SaveOfDeletedRowIsNoOp ==
    /\ [][IsSave
            => /\ ~Exists(hist'.saved.Tag) => rows' = rows
               /\ \A u \in Tags \ {hist'.saved.Tag} : rows'[u] = rows[u]]_vars
    /\ [](hist.savedMissing => phase # "error")
    /\ [](phase = "returned" /\ hist.savedMissing
            => \E i \in 1..Len(results) : results[i] = hist.saved)

\* C20: the row was deleted under the probe, its result was persisted to
\* no effect, and the batch returned it.
C20_Witness ==
    /\ phase = "returned" /\ hist.savedMissing
    /\ hist.saved.Tag = ProbeTag /\ ~Exists(ProbeTag)
    /\ results = <<hist.saved>>
    /\ rows["b"] = OldRow("direct", TRUE)

-----------------------------------------------------------------------------
(* C21..C30 *)

\* C21: once the batch caller's context is cancelled, no task starts a new
\* dial: a task that was waiting for its semaphore slot or had just got it
\* starts no reachability dial, and no task starts the geo race of the
\* SOCKS5 path.
C21_CancelStopsNewDials ==
    [][ctxDone
         => \A t \in Tags :
               /\ pc'[t] = "reachDial" => pc[t] = "reachDial"
               /\ socks'[t] => socks[t]]_vars

\* the tasks that hold a slot of sem
Holders == {t \in Tags : Holding(t)}

\* C22: a task does probe work (a dial, a change of its result, a save, the
\* append) only while it holds a semaphore slot, which it has acquired
\* before; the tasks holding a slot never outnumber the concurrency; a task
\* that has ended holds none, and when the batch goes on after wg.Wait()
\* no slot is held.
C22_SlotHeldWhileProbing ==
    /\ [](phase = "wait" => Cardinality(Holders) <= conc)
    /\ [](\A t \in Tags : TaskDial(t) + GeoDials(t) > 0 => t \in hist.submitted)
    /\ [](\A t \in Tags : TaskDial(t) > 0 \/ mu = t => Holding(t))
    /\ [](phase \in {"save", "returned"} => Holders = {})
    /\ [][\A t \in Tags :
            \/ res'[t] # res[t]
            \/ rows'[t] # rows[t] /\ phase = "wait"
            \/ prov'[t] # prov[t] /\ prov[t] = [p \in Providers |-> "idle"]
            => Holding(t) /\ pc'[t] \notin {"idle", "waitSem"}]_vars
    /\ [][\A t \in Tags :
            pc'[t] \notin {"idle", "waitSem", "done"} /\ ~Holding(t)
              => pc[t] = "waitSem" /\ Cardinality(Holders) < conc]_vars

\* C22: with concurrency 1 one task has ended and released its slot, and the
\* other task, which had to wait for it, is dialling.
C22_Witness ==
    /\ phase = "wait" /\ conc = 1
    /\ \E t, u \in Tags :
          /\ pc[t] = "done" /\ ResultsOf(t) # {}
          /\ Holding(u) /\ pc[u] = "reachDial"

\* the fields of a result that the geo race fills in
GeoFields(r) == [LandingIP |-> r.LandingIP, Country |-> r.Country,
                 Region |-> r.Region, City |-> r.City, ISP |-> r.ISP,
                 IPType |-> r.IPType]

\* the geo fields a result has when they all come from the answer of p
ProviderGeoFields ==
    [p \in Providers |->
        [LandingIP |-> OkResponse(p).ip, Country |-> OkResponse(p).country,
         Region |-> OkResponse(p).region, City |-> OkResponse(p).city,
         ISP |-> OkResponse(p).isp,
         IPType |-> inferIPType(OkResponse(p).isp, OkResponse(p).hostname)]]

FromProvider(p) == ProviderGeoFields[p]

Unmixed(r) ==
    \/ GeoFields(r) = GeoFields(NilResult)
    \/ \E p \in Providers : GeoFields(r) = FromProvider(p)

\* C23: the landingIP, country, region, city, isp and ipType of a result
\* change only in the collector's receive of the geo race, and are then all
\* those of the answer of one provider; before and otherwise they are all as
\* they were before the race (empty).  So every task result, every returned
\* result and every persisted result has the six fields all empty or all
\* of one provider, whatever the order of the provider tasks.
C23_NoMixedGeoFields ==
    /\ [](\A t \in Tags : Unmixed(res[t]))
    /\ [](\A i \in 1..Len(results) : Unmixed(results[i]))
    /\ [](Unmixed(hist.saved))
    /\ [][\A t \in Tags :
            GeoFields(res'[t]) # GeoFields(res[t])
              => /\ pc[t] = "race" /\ resultChan[t] # <<>>
                 /\ GeoFields(res[t]) = GeoFields(NilResult)
                 /\ res'[t] = AfterRace(Head(resultChan[t]))
                 /\ \E p \in Providers :
                       /\ prov[t][p] = "sent"
                       /\ GeoFields(res'[t]) \in {FromProvider(p), GeoFields(NilResult)}]_vars

\* C23: two providers had failed, the third's answer was accepted while
\* the fourth was still running, and the returned result has the third's
\* six fields.
C23_Witness ==
    /\ phase = "returned" /\ Len(results) = 1
    /\ failures[ProbeTag] = 2
    /\ GeoFields(results[1]) = FromProvider(3)
    /\ results[1].IPType = "Hosting"

\* the isp that is read back from a row: model.Outbound has no isp column
\* and SaveTestResult's updates carry none
RowISP(row) == <<>>

\* C24: after SaveTestResult of a result with a landing IP on a row that
\* exists, the row's landingIP, country, region, city, isp, ipType and
\* fraudScore are those of the result.
C24_RowHasResultFields ==
    [][IsSave /\ hist'.saved.LandingIP # "" /\ rows[hist'.saved.Tag].Type # ""
         => LET t == hist'.saved.Tag IN
            /\ Location(rows'[t]) = Location(hist'.saved)
            /\ rows'[t].IPType = hist'.saved.IPType
            /\ rows'[t].FraudScore = hist'.saved.FraudScore
            /\ RowISP(rows'[t]) = hist'.saved.ISP]_vars

\* C25: the capacity of the semaphore of a batch called with concurrency
\* <= 0 is 50 in the reachability batches and 10 in the enriched ones
\* (TestAllAndSave and TestSelectedAndSave included); called with a
\* concurrency > 0 it is that value.
C25_DefaultConcurrency ==
    phase \in {"wait", "save", "returned"}
        => /\ op.Concurrency <= 0 /\ ~op.Enriched => conc = 50
           /\ op.Concurrency <= 0 /\ op.Enriched => conc = 10
           /\ op.Concurrency > 0 => conc = op.Concurrency

\* C25: an enriched batch called with a negative concurrency runs both
\* tasks at once under a semaphore of 10.
C25_Witness ==
    /\ op.Concurrency < 0 /\ op.Enriched /\ conc = 10
    /\ Cardinality(Holders) = 2

\* C26: when a selected-tags batch has returned, it has not failed, every
\* result is of a requested tag that has a row of a type that is not
\* synthetic (direct, block, selector, urltest, dns), a requested tag
\* without row has no entry, and no tag has more than one result however
\* often it was requested.
C26_SelectedResults ==
    /\ op.Selected => phase # "error"
    /\ op.Selected /\ phase = "returned"
         => /\ \A i \in 1..Len(results) :
                  /\ results[i].Tag \in Range(op.Req)
                  /\ Exists(results[i].Tag)
                  /\ rows[results[i].Tag].Type \notin SyntheticTypes
            /\ \A t \in Tags : Cardinality(ResultsOf(t)) <= 1

\* C27: the steps of one enriched probe start in the order reachability,
\* DialFn resolution, real-latency probe, geo race, fraud score, each only
\* when the one before it has finished: the resolution after an available
\* reachability result, the real-latency probe after the resolution, the
\* geo race after the real-latency probe (on the SOCKS5 path as on the
\* adapter path), the scamalytics request after a race that gave a
\* landing IP.
C27_StepsInOrder ==
    [][\A t \in Tags :
          /\ pc'[t] = "recheck" /\ pc[t] # "recheck"
                => pc[t] \in {"start", "reachDial"} /\ res'[t].Available
          /\ pc'[t] = "rlDial" /\ pc[t] # "rlDial" => pc[t] = "recheck"
          /\ pc'[t] = "race" /\ pc[t] # "race" => pc[t] = "rlDial"
          /\ pc'[t] = "scam" /\ pc[t] # "scam"
                => pc[t] = "race" /\ res'[t].LandingIP # ""]_vars

\* C28: once the collector has accepted a winner, no provider task of that
\* race is still dialling, writing or reading: none while the scamalytics
\* request runs, none afterwards.
C28_LosersCancelled ==
    \A t \in Tags :
        ~IsNil(hist.accepted[t]) /\ pc[t] # "race" => GeoDials(t) = 0

\* C29: when the geo race ends while a successful provider result lies in
\* the collector's channel (the context became done after the result was
\* delivered), the collector does not discard it: the race ends with that
\* result accepted and merged into the task's result.
C29_DeliveredResultMerged ==
    [][\A t \in Tags :
          /\ pc[t] = "race" /\ pc'[t] # "race"
          /\ \E i \in 1..Len(resultChan[t]) : ~IsNil(resultChan[t][i])
          => /\ ~IsNil(hist'.accepted[t])
             /\ GeoFields(res'[t]) = GeoFields(hist'.accepted[t])]_vars

-----------------------------------------------------------------------------
(* C31..C39 *)

\* the measurements of the providers whose answer carries the landing IP ip
MeasurementsOf(ip) ==
    {Response(p, o).ms : p \in {q \in Providers : OkResponse(q).ip = ip},
                         o \in {"ok"}}
    \cup (IF ip = "" THEN {Response(p, "empty").ms : p \in EmptyProviders} ELSE {})

\* C31: when the enriched probe of a tag has returned, its realLatency is
\* the measurement of the HEAD /generate_204 probe if that probe succeeded;
\* otherwise the winner's own measurement if the geo race had a winner;
\* otherwise 0.
C31_RealLatencyFinal ==
    \A t \in Tags :
        op.Enriched /\ Probed(t) /\ ~IsNil(res[t])
            => IF hist.headMs[t] >= 0
               THEN res[t].RealLatency = hist.headMs[t]
               ELSE IF ~IsNil(hist.accepted[t])
               THEN res[t].RealLatency \in MeasurementsOf(hist.accepted[t].LandingIP)
               ELSE res[t].RealLatency = 0

\* a page on which no score can be recognised
Unrecognised(page) == page.score < 0 /\ page.risk = {}

\* C32: the scamalytics request starts only at the end of a geo race that
\* gave a landing IP, on a result without error and with fraudScore 0.
\* The request changes no field but fraudScore; when it fails (request
\* error, unreadable body) or the page has no recognisable score,
\* fraudScore stays 0 and the error stays empty.
C32_ScamFailureSilent ==
    /\ [](\A t \in Tags :
            pc[t] = "scam"
                => /\ res[t].LandingIP # "" /\ ~IsNil(hist.accepted[t])
                   /\ res[t].FraudScore = 0 /\ res[t].Error = "")
    /\ [][\A t \in Tags :
            pc'[t] = "scam" /\ pc[t] # "scam" => pc[t] = "race"]_vars
    /\ [][\A t \in Tags :
            pc[t] = "scam" /\ pc'[t] # "scam"
                => /\ pc'[t] = "append"
                   /\ res'[t] = [res[t] EXCEPT !.FraudScore = res'[t].FraudScore]
                   /\ (ScamFailed(t)
                         \/ (\E page \in ScamPages :
                                Unrecognised(page) /\ ScamPage(t, page)))
                      => (res'[t] = res[t] /\ res'[t].FraudScore = 0)]_vars

\* C32: the race gave a landing IP, the scamalytics request failed, and the
\* returned result has the landing IP, no score and no error.
C32_Witness ==
    /\ phase = "returned" /\ Len(results) = 1
    /\ results[1].LandingIP = "ip2" /\ results[1].FraudScore = 0
    /\ results[1].Error = "" /\ results[1].Available
    /\ results[1].IPType = "ISP"

\* C33: TestOutbound of a row whose config has no server or no port makes
\* no dial and returns error = "invalid server or port", available =
\* false, latency = -1, whatever the type of the row (the UDP types
\* included); the enriched probe returns that result as it is: no second
\* row lookup, no DialFn, no real-latency probe, no geo race, no
\* scamalytics request.
C33_InvalidConfigStops ==
    /\ [][\A t \in Tags :
            pc[t] = "start" /\ pc'[t] # "start" /\ Exists(t) /\ ~rows[t].Valid
                => /\ res'[t].Error = "invalid server or port"
                   /\ ~res'[t].Available /\ res'[t].Latency = -1
                   /\ pc'[t] \in {"append", "save"}
                   /\ op.Enriched => pc'[t] = "append"
                   /\ hist'.reachDialled = hist.reachDialled]_vars
    /\ [](\A t \in Tags :
            ~IsNil(res[t]) /\ ~res[t].Valid
                => /\ res[t].Error = "invalid server or port"
                   /\ ~res[t].Available /\ res[t].Latency = -1
                   /\ res[t].LandingIP = "" /\ res[t].RealLatency = 0
                   /\ res[t].FraudScore = 0
                   /\ t \notin hist.reachDialled
                   /\ pc[t] \notin {"reachDial", "recheck", "rlDial", "race", "scam"}
                   /\ ~socks[t] /\ hist.headMs[t] = -1
                   /\ \A p \in Providers : prov[t][p] = "idle")
    /\ [](\A i \in 1..Len(results) :
            ~results[i].Valid
                => /\ results[i].Error = "invalid server or port"
                   /\ ~results[i].Available /\ results[i].Latency = -1
                   /\ results[i].LandingIP = "")

\* C33: an enriched batch over a hysteria2 row without server returned the
\* invalid-config result, with no dial made.
C33_Witness ==
    /\ op.Enriched /\ phase = "returned" /\ Len(results) = 1
    /\ rows[ProbeTag].Type = "hysteria2" /\ ~rows[ProbeTag].Valid
    /\ results[1].Tag = ProbeTag
    /\ results[1].Error = "invalid server or port"
    /\ results[1].Latency = -1 /\ ~results[1].Available
    /\ hist.reachDialled = {}

\* the probe-derived fields of a row or of a result that are written
\* together
ProbeFields(r) == [LandingIP |-> r.LandingIP, Country |-> r.Country,
                   Region |-> r.Region, City |-> r.City, IPType |-> r.IPType,
                   FraudScore |-> r.FraudScore]

\* C34: whatever the order of the SaveTestResult calls of the batch and of
\* an overlapping operation on the same tag, a call changes the row in one
\* step: the row's landingIP, country, region, city, ipType and fraudScore
\* become those of the result together (when it has a landing IP) or stay
\* as they were together, and change in no other step, so that they come
\* from one persisted result at every moment; and a call with the result
\* that was persisted just before changes nothing but lastTestTime.
C34_SaveAtomicIdempotent ==
    /\ [][\A t \in Tags :
            rows[t].Type # "" /\ rows'[t].Type # ""
                => IF IsSave /\ hist'.saved.Tag = t /\ hist'.saved.LandingIP # ""
                   THEN ProbeFields(rows'[t]) = ProbeFields(hist'.saved)
                   ELSE ProbeFields(rows'[t]) = ProbeFields(rows[t])]_vars
    /\ [][IsSave /\ hist.nsaves > 0 /\ hist'.saved = hist.saved
               /\ rows[hist.saved.Tag].Type # ""
            => LET t == hist.saved.Tag IN
               /\ rows'[t] = [rows[t] EXCEPT !.LastTestTime = clock']
               /\ \A u \in Tags \ {t} : rows'[u] = rows[u]]_vars

\* C34: the overlapping operation persisted a located result between the
\* batch's probe and the batch's own save of a result without landing IP,
\* and the row has the six fields of the located result.
C34_Witness ==
    /\ phase = "returned" /\ hist.others = 2 /\ hist.nsaves = 3
    /\ hist.saved.Tag = ProbeTag /\ hist.saved.LandingIP = ""
    /\ ProbeFields(rows[ProbeTag]) = ProbeFields(OtherLocated[ProbeTag])

\* C35: whatever Refresh calls run, in replace or incremental mode and however
\* interleaved, no two outbound rows share a tag: an import whose tag exists
\* is skipped by the incremental check without being counted, or its Create
\* is rejected, counted as failed, and stores nothing
C35_TagsStayUnique ==
    /\ [](\A r1, r2 \in outbounds : r1.Tag = r2.Tag => r1 = r2)
    /\ [][\A s \in Subs :
            (/\ refresh'[s] # refresh[s]
             /\ refresh[s].todo # <<>>
             /\ TagTaken(outbounds, Head(refresh[s].todo)))
            => /\ outbounds' = outbounds
               /\ refresh'[s].Success = refresh[s].Success
               /\ refresh[s].pc = "create"
                  => /\ refresh'[s].Failed = refresh[s].Failed + 1
                     /\ refresh'[s].todo = Tail(refresh[s].todo)
               /\ (refresh[s].pc = "loop" /\ refresh[s].mode = "incremental")
                  => /\ refresh'[s].Failed = refresh[s].Failed
                     /\ refresh'[s].todo = Tail(refresh[s].todo)
                     /\ refresh'[s].pc = "loop"]_vars

\* an incremental Refresh passed its existence check, the other subscription
\* then stored the tag, and the Create was rejected and counted as failed
C35_Witness ==
    \E s \in Subs :
       /\ refresh[s].mode = "incremental"
       /\ refresh[s].Failed = 1
       /\ \E r \in outbounds : r.Sub # s
       /\ \A r \in outbounds : r.Sub # s

C37_BatchTerminates ==
    /\ (phase = "wait") ~> (phase = "returned")
    /\ \A t \in Tags : (pc[t] = "waitSem") ~> (pc[t] # "waitSem")
    /\ [](phase \in {"save", "returned"}
             => \A t \in hist.submitted : pc[t] = "done")

\* a batch with one slot and two tasks has returned, both tasks done
C37_Witness ==
    /\ phase = "returned"
    /\ conc = 1
    /\ hist.submitted = Tags
    /\ \A t \in Tags : pc[t] = "done"

\* C38: every result a batch returns, TestOutbound or the enriched probe
\* hands to its task, or a save persists is of one of two shapes: not available, with latency -1, an
\* error, no landing IP and fraud score 0; or available with a latency of
\* 0 or more
ProbeShape(r) ==
    /\ ~r.Available => /\ r.Latency = -1 /\ r.Error # ""
                       /\ r.LandingIP = "" /\ r.FraudScore = 0
    /\ r.Available => r.Latency >= 0

C38_ResultShape ==
    /\ \A i \in 1..Len(results) : ProbeShape(results[i])
    /\ \A t \in Tags :
          (pc[t] \in {"recheck", "save", "append", "locked", "done"} /\ ~IsNil(res[t]))
             => ProbeShape(res[t])
    /\ ~IsNil(hist.saved) => ProbeShape(hist.saved)

\* an enriched batch returned the result of a failed dial, and another
\* returned an available one: here the first
C38_Witness ==
    /\ phase = "returned" /\ op.Enriched
    /\ \E i \in 1..Len(results) :
          /\ ~results[i].Available /\ results[i].Error = ErrDial
          /\ results[i].Tag \in hist.reachFailed

\* C39: when the row is gone at the enriched probe's second lookup, after a
\* successful reachability step, the probe returns that step's result with
\* error "outbound not found in database": available and latency as they
\* were, no landing IP, no real-latency or geo dial; and persisting that
\* result changes no row
C39_RowDeletedUnderProbe ==
    /\ [][\A t \in Tags :
            (pc[t] = "recheck" /\ pc'[t] # "recheck" /\ ~Exists(t))
               => /\ res'[t] = [res[t] EXCEPT !.Error = ErrNotInDB]
                  /\ res[t].Available /\ res'[t].Latency >= 0
                  /\ res'[t].LandingIP = ""
                  /\ pc'[t] = "append"]_vars
    /\ [](\A t \in Tags :
             res[t].Error = ErrNotInDB
                => /\ pc[t] \in {"append", "locked", "done"}
                   /\ ~socks[t]
                   /\ \A p \in Providers : prov[t][p] = "idle"
                   /\ hist.headMs[t] = -1
                   /\ \A i \in ResultsOf(t) : results[i] = res[t])
    /\ [][(IsSave /\ hist'.saved.Error = ErrNotInDB) => rows' = rows]_vars

\* TestAllAndSave returned and persisted the result of a probe whose row
\* was deleted after its reachability dial had succeeded
C39_Witness ==
    /\ phase = "returned" /\ op.AndSave
    /\ ~Exists(ProbeTag)
    /\ ProbeTag \in hist.reachDialled \ hist.reachFailed
    /\ hist.saved.Tag = ProbeTag
    /\ hist.saved.Error = ErrNotInDB
    /\ hist.saved.Available /\ hist.saved.Latency = 7

====
